---------------------------- MODULE Spec2Model ----------------------------
(***************************************************************************)
(* Model of the AutoOTA flash tool: the command model (AutoOTACommand.py), *)
(* the authenticated command channel (AutoOTAHelper.py) and the transfer   *)
(* and flash orchestration (flashtool.py).                                 *)
(*                                                                         *)
(* Byte strings are sequences of runs.  A run <<src, off, n>> stands for   *)
(* the n bytes found at offsets off .. off+n-1 of the source src: a file,  *)
(* the table of the 256 literal byte values, a value issued by the device, *)
(* or the output of a MAC or of a hash.  Two byte strings are equal iff    *)
(* their normal forms (maximal runs) are equal.                            *)
(***************************************************************************)
EXTENDS Integers, Sequences, FiniteSets, TLC

VARIABLES
    mode,        \* the CLI mode dispatched by _async_main, or "api": a library client
    args,        \* the argparse namespace (do_cmd_flash rewrites address/length/filepath)
    files,       \* size of each file on disk, NotAFile when it is no file
    device,      \* g_device: the AutoOTADevice
    controller,  \* g_controller: the AutoOTAController
    pc,          \* position of the top-level flow
    loc,         \* locals of the running do_cmd_* function
    sc,          \* the running (or last) send_command activation
    xlog,        \* attribute operations performed since send_command was entered
    mon,         \* history of the run (what has been sent to the device)
    exit         \* how the process ended: "running", "0", "1" or "exception"

vars == <<mode, args, files, device, controller, pc, loc, sc, xlog, mon, exit>>

-----------------------------------------------------------------------------
(* Python values *)

PyNone == [ty |-> "NoneType"]
Unbound == [ty |-> "unbound"]      \* a local not assigned yet
PyInt(i) == [ty |-> "int", v |-> i]
PyBytes(b) == [ty |-> "bytes", v |-> b]
PyStr(s) == [ty |-> "str", v |-> s]

IsNone(x) == x.ty = "NoneType"
IsInt(x) == x.ty = "int"
IsBytes(x) == x.ty = "bytes"

-----------------------------------------------------------------------------
(* Byte strings *)

Run(src, off, n) == [src |-> src, off |-> off, n |-> n]

LitSrc == [t |-> "lit"]
FileSrc(f) == [t |-> "file", name |-> f]
DevSrc(what, id) == [t |-> "device", what |-> what, id |-> id]
KeySrc(id) == [t |-> "key", id |-> id]

RECURSIVE Norm(_)
Norm(rs) ==
    IF rs = <<>> THEN <<>>
    ELSE IF Head(rs).n <= 0 THEN Norm(Tail(rs))
    ELSE LET rest == Norm(Tail(rs))
             h == Head(rs)
         IN  IF rest # <<>> /\ Head(rest).src = h.src /\ Head(rest).off = h.off + h.n
             THEN <<Run(h.src, h.off, h.n + Head(rest).n)>> \o Tail(rest)
             ELSE <<h>> \o rest

RECURSIVE BLen(_)
BLen(b) == IF b = <<>> THEN 0 ELSE Head(b).n + BLen(Tail(b))

BCat(a, b) == Norm(a \o b)

RECURSIVE Lits(_)
Lits(s) == IF s = <<>> THEN <<>> ELSE Norm(<<Run(LitSrc, Head(s), 1)>> \o Lits(Tail(s)))

RECURSIVE Repeat(_, _)
Repeat(byte, n) == IF n <= 0 THEN <<>> ELSE <<Run(LitSrc, byte, 1)>> \o Repeat(byte, n - 1)

RECURSIVE BDrop(_, _)
BDrop(b, k) ==
    IF k <= 0 \/ b = <<>> THEN b
    ELSE IF Head(b).n <= k THEN BDrop(Tail(b), k - Head(b).n)
    ELSE <<Run(Head(b).src, Head(b).off + k, Head(b).n - k)>> \o Tail(b)

RECURSIVE BTake(_, _)
BTake(b, k) ==
    IF k <= 0 \/ b = <<>> THEN <<>>
    ELSE IF Head(b).n <= k THEN <<Head(b)>> \o BTake(Tail(b), k - Head(b).n)
    ELSE <<Run(Head(b).src, Head(b).off, k)>>

Min(a, b) == IF a <= b THEN a ELSE b
Max(a, b) == IF a >= b THEN a ELSE b

SliceIndex(i, len) == IF i < 0 THEN Max(len + i, 0) ELSE Min(i, len)

BSlice(b, lo, hi) ==
    LET len == BLen(b)
        l == SliceIndex(lo, len)
        h == SliceIndex(hi, len)
    IN  IF h <= l THEN <<>> ELSE Norm(BTake(BDrop(b, l), h - l))

RECURSIVE BAt(_, _)
BAt(b, i) == IF i < Head(b).n THEN Run(Head(b).src, Head(b).off + i, 1) ELSE BAt(Tail(b), i - Head(b).n)

FileBytes(f, size) == Norm(<<Run(FileSrc(f), 0, size)>>)

CMAC(key, msg) == <<Run([t |-> "cmac", key |-> key, msg |-> msg], 0, 16)>>
SHA256(msg) == <<Run([t |-> "sha256", msg |-> msg], 0, 32)>>

Truthy(x) ==
    CASE x.ty = "NoneType" -> FALSE
      [] x.ty = "bytes" -> BLen(x.v) > 0
      [] x.ty = "int" -> x.v # 0
      [] OTHER -> TRUE

-----------------------------------------------------------------------------
(* Exceptions *)

NoExc == [kind |-> "none", msg |-> ""]
Exc(kind, msg) == [kind |-> kind, msg |-> msg]

\* What `except Exception` catches: everything but SystemExit.
IsException(e) == e.kind \notin {"none", "SystemExit"}
\* What `except BleakError` catches.
IsBleakError(e) == e.kind = "BleakError"

-----------------------------------------------------------------------------
(* AutoOTACommand.py *)

OTA_CMD_READ == 0
OTA_CMD_PROGRAM == 1
OTA_CMD_ERASE == 2
OTA_CMD_VERIFY == 3
OTA_CMD_REBOOT == 4
OTA_CMD_CONFIRM == 5

Command(cls, address, length, data) ==
    [cls |-> cls, address |-> address, length |-> length, data |-> data]

AutoOTAReadCommand(address, length) == Command("Read", address, length, PyNone)
AutoOTAProgramCommand(address, data) == Command("Program", address, PyNone, data)
AutoOTAEraseCommand(address, length) == Command("Erase", address, length, PyNone)
AutoOTAVerifyCommand(address, length) == Command("Verify", address, length, PyNone)
AutoOTARebootCommand == Command("Reboot", PyNone, PyNone, PyNone)
AutoOTAConfirmCommand == Command("Confirm", PyNone, PyNone, PyNone)

Opcode(cls) ==
    CASE cls = "Read" -> OTA_CMD_READ
      [] cls = "Program" -> OTA_CMD_PROGRAM
      [] cls = "Erase" -> OTA_CMD_ERASE
      [] cls = "Verify" -> OTA_CMD_VERIFY
      [] cls = "Reboot" -> OTA_CMD_REBOOT
      [] cls = "Confirm" -> OTA_CMD_CONFIRM

\* A faulty cmd_validate: the length is not required to be positive.
ValidateAnyLength(cmd) ==
    IF IsNone(cmd.address) THEN Exc("ValueError", "requires 'address' parameter")
    ELSE IF ~IsInt(cmd.address) THEN Exc("TypeError", "'address' must be an integer")
    ELSE IF IsNone(cmd.length) THEN Exc("ValueError", "requires 'length' parameter")
    ELSE IF ~IsInt(cmd.length) THEN Exc("TypeError", "'length' must be a positive integer")
    ELSE NoExc

\* cmd_validate of the Read, Erase and Verify commands: the exception raised, or NoExc.
ValidateAddressLength(cmd) ==
    IF IsNone(cmd.address) THEN Exc("ValueError", "requires 'address' parameter")
    ELSE IF ~IsInt(cmd.address) THEN Exc("TypeError", "'address' must be an integer")
    ELSE IF IsNone(cmd.length) THEN Exc("ValueError", "requires 'length' parameter")
    ELSE IF ~IsInt(cmd.length) \/ cmd.length.v <= 0
         THEN Exc("TypeError", "'length' must be a positive integer")
    ELSE NoExc

\* A faulty cmd_validate: an address of 0 counts as missing.
ValidateProgramFalsyAddress(cmd) ==
    IF ~Truthy(cmd.address) THEN Exc("ValueError", "requires 'address' parameter")
    ELSE IF ~IsInt(cmd.address) THEN Exc("TypeError", "'address' must be an integer")
    ELSE IF IsNone(cmd.data) THEN Exc("ValueError", "requires 'data' parameter")
    ELSE IF ~IsBytes(cmd.data) THEN Exc("TypeError", "'data' must be of type bytes")
    ELSE NoExc

\* cmd_validate of the Program command.
ValidateProgram(cmd) ==
    IF IsNone(cmd.address) THEN Exc("ValueError", "requires 'address' parameter")
    ELSE IF ~IsInt(cmd.address) THEN Exc("TypeError", "'address' must be an integer")
    ELSE IF IsNone(cmd.data) THEN Exc("ValueError", "requires 'data' parameter")
    ELSE IF ~IsBytes(cmd.data) THEN Exc("TypeError", "'data' must be of type bytes")
    ELSE NoExc

cmd_validate(cmd) ==
    CASE cmd.cls \in {"Read", "Erase", "Verify"} -> ValidateAddressLength(cmd)
      [] cmd.cls = "Program" -> ValidateProgram(cmd)
      [] OTHER -> NoExc

\* struct.pack('<I', v): four bytes, least significant first; struct.error when
\* v is no unsigned 32-bit integer (0 <= v < 2^32, written on 16-bit halves).
PackFits(v) == IsInt(v) /\ v.v >= 0 /\ (v.v \div 65536) < 65536
PackU32(v) ==
    Lits(<<v % 256, (v \div 256) % 256, (v \div 65536) % 256, (v \div 16777216) % 256>>)

\* cmd_to_bytes: the exception raised (NoExc when none).
cmd_to_bytes_exc(cmd) ==
    CASE cmd.cls \in {"Read", "Erase", "Verify"} ->
            IF PackFits(cmd.address) /\ PackFits(cmd.length) THEN NoExc
            ELSE Exc("struct.error", "argument out of range")
      [] cmd.cls = "Program" ->
            IF PackFits(cmd.address) THEN NoExc ELSE Exc("struct.error", "argument out of range")
      [] OTHER -> NoExc

\* cmd_to_bytes: the encoded command (when cmd_to_bytes_exc is NoExc).
cmd_to_bytes(cmd) ==
    CASE cmd.cls \in {"Read", "Erase", "Verify"} ->
            BCat(BCat(Lits(<<Opcode(cmd.cls)>>), PackU32(cmd.address.v)), PackU32(cmd.length.v))
      [] cmd.cls = "Program" ->
            BCat(Lits(<<Opcode(cmd.cls)>>), PackU32(cmd.address.v))
      [] OTHER -> Lits(<<Opcode(cmd.cls)>>)

\* A faulty cmd_get_iobuf: every command gives its data argument.
CmdGetIobufAny(cmd) == cmd.data

cmd_get_iobuf(cmd) == IF cmd.cls = "Program" THEN cmd.data ELSE PyNone

cmd_need_result(cmd) == cmd.cls = "Read"

-----------------------------------------------------------------------------
(* AutoOTAHelper.py: AutoOTADevice *)

\* AutoOTADevice.__init__: client None, connected False.
NewDevice(write_resp) ==
    [exists |-> TRUE, client |-> FALSE, connected |-> FALSE, write_resp_flag |-> write_resp]
NoDevice ==
    [exists |-> FALSE, client |-> FALSE, connected |-> FALSE, write_resp_flag |-> "None"]

\* A faulty _ensure_connected: only the client is tested.
ConnectedClientOnly(dev) == dev.client

\* _ensure_connected passes.
Connected(dev) == dev.connected /\ dev.client

\* What the transport, or the lookup of the service and the characteristic, may raise.
IoErrors == {"BleakError", "OSError", "ValueError"}

\* The outcomes of one read_characteristic / write_characteristic call.
IoOutcomes(dev) == IF Connected(dev) THEN {"ok"} \cup IoErrors ELSE {"RuntimeError"}

IoExc(out, what) ==
    IF out = "RuntimeError" THEN Exc("RuntimeError", "Device is not connected")
    ELSE Exc(out, what)

\* One attribute operation, as the device sees it (ok: it raised nothing).
Op(op, attr, val, resp, ok) == [op |-> op, attr |-> attr, val |-> val, resp |-> resp, ok |-> ok]

\* _ensure_connected (lines 27-29, 128, 136) let the operation through to the client.
Performed(out) == out # "RuntimeError"

\* AutoOTADevice.connect (lines 58-88); "notfound" arises only when connecting by name.
ConnectOutcomes == {"ok", "fail", "notfound"}
Connect(dev, out) ==
    CASE out = "ok" -> [dev EXCEPT !.client = TRUE, !.connected = TRUE]
      [] out = "fail" -> [dev EXCEPT !.client = TRUE]
      [] OTHER -> dev

\* AutoOTADevice.disconnect (lines 143-146).
Disconnect(dev) == IF dev.client THEN [dev EXCEPT !.connected = FALSE] ELSE dev

\* The outcomes of disconnect: without a client nothing is called.
DisconnectOutcomes(dev) == IF dev.client THEN {"ok", "fail"} ELSE {"ok"}

-----------------------------------------------------------------------------
(* AutoOTAHelper.py: AutoOTAController *)

NoController == [exists |-> FALSE, aes_key |-> PyNone]

\* A faulty __init__: the length of the key is not looked at.
ControllerInitAnyLength(aes_key) ==
    IF IsNone(aes_key) THEN NoExc
    ELSE IF ~IsBytes(aes_key) THEN Exc("TypeError", "AES key must be of type 'bytes'")
    ELSE NoExc

\* AutoOTAController.__init__: the exception raised for this aes_key, or NoExc.
ControllerInitExc(aes_key) ==
    IF IsNone(aes_key) THEN NoExc
    ELSE IF ~IsBytes(aes_key) THEN Exc("TypeError", "AES key must be of type 'bytes'")
    ELSE IF BLen(aes_key.v) # 16 THEN Exc("ValueError", "AES key must be 16 bytes long")
    ELSE NoExc

AutoOTAController(aes_key) ==
    IF ControllerInitExc(aes_key) = NoExc
    THEN [exists |-> TRUE, aes_key |-> aes_key]
    ELSE NoController

\* The activation record of send_command.
NoCall ==
    [step |-> "idle", cmd |-> AutoOTARebootCommand, cmd_bytes |-> <<>>, cmd_iobuf |-> PyNone,
     challenge |-> <<>>, token |-> <<>>, token_signature |-> <<>>, result |-> PyNone,
     exc |-> NoExc]

Raise(call, e) == [call EXCEPT !.step = "raised", !.exc = e]

\* A faulty send_command: an empty challenge is taken as it comes.
ChallengeNeverMissing(challenge) == FALSE

\* `if not challenge:` (line 297).
ChallengeMissing(challenge) == BLen(challenge) = 0

\* `if cmd_iobuf:` (lines 287 and 309).
HasIobuf(cmd_iobuf) == Truthy(cmd_iobuf)

\* A faulty send_command: the command is written to ota_main before its token.
NextStepMainFirst(step, call) ==
    CASE step = "enter" -> IF Truthy(call.cmd_iobuf) THEN "write_buffer" ELSE "read_challenge"
      [] step = "write_buffer" -> "read_challenge"
      [] step = "read_challenge" -> "write_main"
      [] step = "write_main" -> "write_token"
      [] step = "write_token" -> IF cmd_need_result(call.cmd) THEN "read_result" ELSE "done"
      [] step = "read_result" -> "done"

\* A faulty send_command: a command without payload is signed without a challenge
\* of its own.
NextStepNoChallenge(step, call) ==
    CASE step = "enter" -> IF Truthy(call.cmd_iobuf) THEN "write_buffer" ELSE "write_token"
      [] step = "write_buffer" -> "read_challenge"
      [] step = "read_challenge" -> "write_token"
      [] step = "write_token" -> "write_main"
      [] step = "write_main" -> IF cmd_need_result(call.cmd) THEN "read_result" ELSE "done"
      [] step = "read_result" -> "done"

\* A faulty send_command: the write of the command is made again after it.
NextStepMainAgain(step, call) ==
    CASE step = "enter" -> IF Truthy(call.cmd_iobuf) THEN "write_buffer" ELSE "read_challenge"
      [] step = "write_buffer" -> "read_challenge"
      [] step = "read_challenge" -> "write_token"
      [] step = "write_token" -> "write_main"
      [] step = "write_main" -> "write_main"
      [] step = "read_result" -> "done"

\* The statement order of send_command after the step `step`.
NextStep(step, call) ==
    CASE step = "enter" -> IF HasIobuf(call.cmd_iobuf) THEN "write_buffer" ELSE "read_challenge"
      [] step = "write_buffer" -> "read_challenge"
      [] step = "read_challenge" -> "write_token"
      [] step = "write_token" -> "write_main"
      [] step = "write_main" -> IF cmd_need_result(call.cmd) THEN "read_result" ELSE "done"
      [] step = "read_result" -> "done"

\* The checks send_command makes before any I/O, in the order of the code:
\* the exception raised, or NoExc.
SendCommandPrecheck(ctl, dev, cmd) ==
    IF IsNone(ctl.aes_key)
    THEN Exc("RuntimeError", "AES key is not set")
    ELSE IF ~Connected(dev)
    THEN Exc("RuntimeError", "Device is not connected")
    ELSE IF cmd_validate(cmd) # NoExc
    THEN cmd_validate(cmd)
    ELSE cmd_to_bytes_exc(cmd)

\* Entering send_command (lines 270-284): the activation it starts with.
send_command(ctl, dev, cmd) ==
    LET e == SendCommandPrecheck(ctl, dev, cmd)
        call == [NoCall EXCEPT !.cmd = cmd]
    IN  IF e # NoExc THEN Raise(call, e)
        ELSE LET c == [call EXCEPT !.cmd_bytes = cmd_to_bytes(cmd),
                                   !.cmd_iobuf = cmd_get_iobuf(cmd)]
             IN  [c EXCEPT !.step = NextStep("enter", c)]

\* A faulty send_command: the IO buffer is always run through the CMAC.
IobufCmacAlways(key, cmd_iobuf) ==
    CMAC(key, IF IsBytes(cmd_iobuf) THEN cmd_iobuf.v ELSE <<>>)

\* Lines 308-317: the CMAC of the IO buffer, or the placeholder.
IobufCmac(key, cmd_iobuf) ==
    IF HasIobuf(cmd_iobuf) THEN CMAC(key, cmd_iobuf.v) ELSE Repeat(0, 16)

\* Line 320.
Token(key, cmd_bytes, cmd_iobuf, challenge) ==
    BCat(BCat(CMAC(key, cmd_bytes), IobufCmac(key, cmd_iobuf)), challenge)

\* Lines 323-326.
TokenSignature(key, token) == CMAC(key, token)

-----------------------------------------------------------------------------
(* History of the run *)

Classes == {"Read", "Program", "Erase", "Verify", "Reboot", "Confirm"}

MonInit ==
    [calls |-> 0,                               \* API calls made by the client
     mainSeq |-> <<>>,                          \* classes written to ota_main, repeats folded
     count |-> [c \in Classes |-> 0],           \* writes to ota_main per class
     lastMain |-> [c \in Classes |-> <<>>],     \* last bytes written to ota_main per class
     progBytes |-> 0,                           \* payload bytes of the Programs written
     eraseOk |-> FALSE,                         \* a status read after the Erase said success
     verifyOk |-> FALSE,                        \* a status read after the Verify said success
     digest |-> PyNone,                         \* the IO buffer read after the Verify
     bankRaw |-> Unbound,                       \* what the read of ota_flash_bank gave
     infoFailed |-> FALSE,                      \* read_device_info raised
     connects |-> 0]                            \* devices connect_ble created and connected

\* The history after the attribute operation op made for the command cmd.
Observe(m, op, cmd) ==
    IF op.op = "write" /\ op.attr = "ota_main"
    THEN [m EXCEPT !.mainSeq = IF m.mainSeq # <<>> /\ m.mainSeq[Len(m.mainSeq)] = cmd.cls
                               THEN m.mainSeq ELSE Append(m.mainSeq, cmd.cls),
                   !.count[cmd.cls] = @ + 1,
                   !.lastMain[cmd.cls] = op.val,
                   !.progBytes = IF cmd.cls = "Program" /\ IsBytes(cmd.data)
                                 THEN @ + BLen(cmd.data.v) ELSE @]
    ELSE m

LastMainCls(m) == IF m.mainSeq = <<>> THEN "none" ELSE m.mainSeq[Len(m.mainSeq)]

\* The history after read_ota_status returned the status st.
ObserveStatus(m, st) ==
    [m EXCEPT !.eraseOk = @ \/ (st.success /\ LastMainCls(m) = "Erase"),
              !.verifyOk = @ \/ (st.success /\ LastMainCls(m) = "Verify")]

\* The log and the history after an operation whose outcome was out.
Logged(log, op, out) == IF Performed(out) THEN Append(log, op) ELSE log
Observed(m, op, cmd, out) == IF Performed(out) THEN Observe(m, op, cmd) ELSE m

-----------------------------------------------------------------------------
(* The device side *)

NonceIds == 2

Nonce(id, n) == <<Run(DevSrc("challenge", id), 0, n)>>

\* What a read of ota_challenge may return: nothing, a 16-byte nonce, or a
\* value of another length.
ChallengeValues == {<<>>} \cup {Nonce(i, 16) : i \in 1..NonceIds} \cup {Nonce(1, 8)}

\* What a read of ota_buffer may return after Read(address, length): the
\* flash content asked for, nothing, or one byte more than asked for.
FlashBytes(address, n) == Norm(<<Run(DevSrc("flash", 0), address, n)>>)
ReadResultValues(cmd) ==
    {FlashBytes(cmd.address.v, cmd.length.v), <<>>, FlashBytes(cmd.address.v, cmd.length.v + 1)}

-----------------------------------------------------------------------------
(* send_command, one action per awaited attribute operation *)

StepVars == <<mode, args, files, device, controller, pc, loc, exit>>

\* Lines 286-291.
send_command_write_buffer ==
    /\ exit = "running"
    /\ sc.step = "write_buffer"
    /\ \E out \in IoOutcomes(device) :
         LET op == Op("write", "ota_buffer", sc.cmd_iobuf.v, device.write_resp_flag, out = "ok")
         IN  /\ xlog' = Logged(xlog, op, out)
             /\ mon' = Observed(mon, op, sc.cmd, out)
             /\ sc' = IF out = "ok"
                      THEN [sc EXCEPT !.step = NextStep("write_buffer", sc)]
                      ELSE Raise(sc, IoExc(out, "write ota_buffer"))
    /\ UNCHANGED StepVars

\* Lines 293-299.
send_command_read_challenge ==
    /\ exit = "running"
    /\ sc.step = "read_challenge"
    /\ \/ \E out \in IoOutcomes(device) \ {"ok"} :
            LET op == Op("read", "ota_challenge", <<>>, "n/a", FALSE)
            IN  /\ xlog' = Logged(xlog, op, out)
                /\ mon' = Observed(mon, op, sc.cmd, out)
                /\ sc' = Raise(sc, IoExc(out, "read ota_challenge"))
       \/ /\ "ok" \in IoOutcomes(device)
          /\ \E challenge \in ChallengeValues :
               LET op == Op("read", "ota_challenge", challenge, "n/a", TRUE)
               IN  /\ xlog' = Append(xlog, op)
                   /\ mon' = Observe(mon, op, sc.cmd)
                   /\ sc' = IF ChallengeMissing(challenge)
                            THEN Raise(sc, Exc("RuntimeError", "Failed to read authentication challenge"))
                            ELSE [sc EXCEPT !.challenge = challenge,
                                            !.step = NextStep("read_challenge", sc)]
    /\ UNCHANGED StepVars

\* Lines 301-332.
send_command_write_token ==
    /\ exit = "running"
    /\ sc.step = "write_token"
    /\ \E out \in IoOutcomes(device) :
         LET token == Token(controller.aes_key.v, sc.cmd_bytes, sc.cmd_iobuf, sc.challenge)
             token_signature == TokenSignature(controller.aes_key.v, token)
             op == Op("write", "ota_token", token_signature, device.write_resp_flag, out = "ok")
             call == [sc EXCEPT !.token = token, !.token_signature = token_signature]
         IN  /\ xlog' = Logged(xlog, op, out)
             /\ mon' = Observed(mon, op, sc.cmd, out)
             /\ sc' = IF out = "ok"
                      THEN [call EXCEPT !.step = NextStep("write_token", sc)]
                      ELSE Raise(call, IoExc(out, "write ota_token"))
    /\ UNCHANGED StepVars

\* Lines 334-337: write_characteristic(char, cmd_bytes), write_resp left at its default.
send_command_write_main ==
    /\ exit = "running"
    /\ sc.step = "write_main"
    /\ \E out \in IoOutcomes(device) :
         LET op == Op("write", "ota_main", sc.cmd_bytes, "None", out = "ok")
         IN  /\ xlog' = Logged(xlog, op, out)
             /\ mon' = Observed(mon, op, sc.cmd, out)
             /\ sc' = IF out = "ok"
                      THEN [sc EXCEPT !.step = NextStep("write_main", sc)]
                      ELSE Raise(sc, IoExc(out, "write ota_main"))
    /\ UNCHANGED StepVars

\* Lines 339-346.
send_command_read_result ==
    /\ exit = "running"
    /\ sc.step = "read_result"
    /\ \/ \E out \in IoOutcomes(device) \ {"ok"} :
            LET op == Op("read", "ota_buffer", <<>>, "n/a", FALSE)
            IN  /\ xlog' = Logged(xlog, op, out)
                /\ mon' = Observed(mon, op, sc.cmd, out)
                /\ sc' = Raise(sc, IoExc(out, "read ota_buffer"))
       \/ /\ "ok" \in IoOutcomes(device)
          /\ \E result_data \in ReadResultValues(sc.cmd) :
               LET op == Op("read", "ota_buffer", result_data, "n/a", TRUE)
               IN  /\ xlog' = Append(xlog, op)
                   /\ mon' = Observe(mon, op, sc.cmd)
                   /\ sc' = [sc EXCEPT !.result = PyBytes(result_data),
                                       !.step = NextStep("read_result", sc)]
    /\ UNCHANGED StepVars

-----------------------------------------------------------------------------
(* A library client: calls of the API in any order *)

MaxApiCalls == 3

Key(n) == PyBytes(Norm(<<Run(KeySrc("K"), 0, n)>>))

ApiKeys == {PyNone, Key(16), Key(15), Key(17), PyStr("0123456789abcdef")}

Data(n) == PyBytes(Norm(<<Run(FileSrc("F"), 0, n)>>))

ApiCommands ==
    {AutoOTAReadCommand(PyInt(4096), PyInt(256)),
     AutoOTAReadCommand(PyNone, PyInt(256)),
     AutoOTAReadCommand(PyInt(4096), PyNone),
     AutoOTAReadCommand(PyInt(0), PyInt(1)),
     AutoOTAReadCommand(PyInt(4096), PyInt(0)),
     AutoOTAReadCommand(PyInt(4096), PyInt(-1)),
     AutoOTAReadCommand(PyStr("0x1000"), PyInt(4)),
     AutoOTAReadCommand(PyInt(-1), PyInt(4)),
     Command("Read", PyInt(4096), PyInt(4), Data(3)),
     AutoOTAProgramCommand(PyInt(8192), Data(3)),
     AutoOTAProgramCommand(PyInt(8192), Data(0)),
     AutoOTAProgramCommand(PyInt(8192), PyNone),
     AutoOTAProgramCommand(PyInt(8192), PyStr("abc")),
     AutoOTAProgramCommand(PyNone, Data(3)),
     AutoOTAProgramCommand(PyInt(-1), Data(3)),
     AutoOTAEraseCommand(PyInt(4096), PyInt(4096)),
     AutoOTAEraseCommand(PyInt(4096), PyInt(0)),
     AutoOTAVerifyCommand(PyInt(4096), PyInt(100)),
     AutoOTAVerifyCommand(PyInt(0), PyNone),
     AutoOTARebootCommand,
     AutoOTAConfirmCommand}

\* The locals of the do_cmd_* functions (checks: the values `check` took in the
\* completion wait, failed_code: the code its failure reported); for the library
\* client, call is its last call, aes_key the key it last built a controller with
\* and exc what the last call raised.
\* What a client keeps of an exchange for comparison: the key it was made with
\* and what send_command signed.
Signing(key, call) ==
    [key |-> key, cmd_bytes |-> call.cmd_bytes, cmd_iobuf |-> call.cmd_iobuf,
     challenge |-> call.challenge, token |-> call.token,
     token_signature |-> call.token_signature]
NoExchange == Signing(PyNone, NoCall)

LocInit ==
    [exc |-> NoExc, process_length |-> 0, remain_length |-> 0, address |-> 0,
     chunk_length |-> 0, flash_data |-> <<>>, length |-> 0, flash_dump |-> <<>>,
     flash_bank |-> Unbound, sha256_result |-> <<>>, call |-> "none", aes_key |-> Unbound,
     checks |-> <<>>, failed_code |-> PyNone, io |-> <<>>, prev |-> NoExchange]

ApiIdle == mode = "api" /\ pc = "api" /\ exit = "running" /\ mon.calls < MaxApiCalls

\* client code: controller = AutoOTAController(device, aes_key)
api_new_controller(keys) ==
    /\ ApiIdle
    /\ \E aes_key \in keys :
         /\ controller' = IF ControllerInitExc(aes_key) = NoExc
                          THEN AutoOTAController(aes_key) ELSE controller
         /\ loc' = [loc EXCEPT !.exc = ControllerInitExc(aes_key), !.aes_key = aes_key,
                                !.call = "AutoOTAController"]
    /\ mon' = [mon EXCEPT !.calls = @ + 1]
    /\ UNCHANGED <<mode, args, files, device, pc, sc, xlog, exit>>

api_controller == api_new_controller(ApiKeys)

\* client code: await device.connect()
api_connect ==
    /\ ApiIdle
    /\ \E out \in ConnectOutcomes :
         /\ device' = Connect(device, out)
         /\ loc' = [loc EXCEPT !.exc = IF out = "ok" THEN NoExc ELSE Exc("Exception", "connect"),
                                !.call = "connect"]
    /\ mon' = [mon EXCEPT !.calls = @ + 1]
    /\ UNCHANGED <<mode, args, files, controller, pc, sc, xlog, exit>>

\* client code: await device.disconnect(); client.disconnect() (line 145) may raise,
\* and then line 146 is not reached.
api_disconnect ==
    /\ ApiIdle
    /\ \E out \in DisconnectOutcomes(device) :
         /\ device' = IF out = "ok" THEN Disconnect(device) ELSE device
         /\ loc' = [loc EXCEPT !.exc = IF out = "ok" THEN NoExc
                                       ELSE Exc("BleakError", "disconnect"),
                                !.call = "disconnect"]
    /\ mon' = [mon EXCEPT !.calls = @ + 1]
    /\ UNCHANGED <<mode, args, files, controller, pc, sc, xlog, exit>>

\* client code: await controller.send_command(cmd)
api_send(cmds) ==
    /\ ApiIdle
    /\ controller.exists
    /\ \E cmd \in cmds :
         sc' = send_command(controller, device, cmd)
    /\ xlog' = <<>>
    /\ pc' = "api_await"
    /\ loc' = [loc EXCEPT !.call = "send_command"]
    /\ mon' = [mon EXCEPT !.calls = @ + 1]
    /\ UNCHANGED <<mode, args, files, device, controller, exit>>

api_send_command == api_send(ApiCommands)

\* send_command returned to, or raised into, the client.
api_return ==
    /\ mode = "api" /\ pc = "api_await" /\ exit = "running"
    /\ sc.step \in {"done", "raised"}
    /\ pc' = "api"
    /\ loc' = [loc EXCEPT !.exc = sc.exc]
    /\ sc' = NoCall
    /\ xlog' = <<>>
    /\ UNCHANGED <<mode, args, files, device, controller, mon, exit>>


-----------------------------------------------------------------------------
(* AutoOTAHelper.py: the reads of the channel *)

RECURSIVE LitValues(_)
\* The byte values of a string of literal bytes.
LitValues(b) ==
    IF b = <<>> THEN <<>>
    ELSE <<Head(b).off>> \o LitValues(BDrop(b, 1))

HexDigits == <<"0", "1", "2", "3", "4", "5", "6", "7", "8", "9", "a", "b", "c", "d", "e", "f">>
HexByte(v) == HexDigits[(v \div 16) + 1] \o HexDigits[(v % 16) + 1]

RECURSIVE HexString(_)
HexString(vs) == IF vs = <<>> THEN "" ELSE HexByte(Head(vs)) \o HexString(Tail(vs))

\* bytes.hex()
Hex(b) == HexString(LitValues(b))

\* Lines 234 and 209: value.hex() if value else None
HexOrNone(value) == IF BLen(value) > 0 THEN PyStr(Hex(value)) ELSE PyNone

\* What a read of ota_flash_bank may return.
BankRawValues ==
    {Lits(<<165, 165, 165, 165>>), Lits(<<90, 90, 90, 90>>), Lits(<<255, 255, 255, 255>>),
     Lits(<<165, 165, 165>>), <<>>}

\* What a read of ota_main may return.
StatusValues ==
    {Lits(<<1, 0>>), Lits(<<0, 0>>), Lits(<<0, 7>>), Lits(<<0, 3>>), Lits(<<1, 7>>),
     Lits(<<255, 0>>), Lits(<<0>>), <<>>}

ByteAt(b, i) == BAt(b, i).off

\* A faulty decoding: success does not look at the busy flag.
DecodeStatusIgnoresBusy(status_data) ==
    [exc |-> NoExc, raw |-> status_data,
     busy |-> ByteAt(status_data, 0) # 0,
     success |-> ByteAt(status_data, 1) = 0,
     code |-> ByteAt(status_data, 1)]

\* A faulty decoding: bytes that are missing are taken as zero.
DecodeStatusPadded(status_data) ==
    LET byte0 == IF BLen(status_data) > 0 THEN ByteAt(status_data, 0) ELSE 0
        byte1 == IF BLen(status_data) > 1 THEN ByteAt(status_data, 1) ELSE 0
    IN  [exc |-> NoExc, raw |-> status_data, busy |-> byte0 # 0,
         success |-> (byte1 = 0 /\ byte0 = 0), code |-> byte1]

\* read_ota_status (lines 256-265) on the bytes read from ota_main (raw: those bytes).
DecodeStatus(status_data) ==
    IF BLen(status_data) = 0
    THEN [exc |-> Exc("RuntimeError", "Failed to read OTA status"), raw |-> status_data,
          busy |-> FALSE, success |-> FALSE, code |-> 0]
    ELSE IF BLen(status_data) < 2
    THEN [exc |-> Exc("IndexError", "index out of range"), raw |-> status_data,
          busy |-> FALSE, success |-> FALSE, code |-> 0]
    ELSE LET busy == ByteAt(status_data, 0) # 0
         IN  [exc |-> NoExc,
              raw |-> status_data,
              busy |-> busy,
              success |-> (ByteAt(status_data, 1) = 0 /\ busy = FALSE),
              code |-> ByteAt(status_data, 1)]

IoFailed(out) ==
    [exc |-> IoExc(out, "read"), raw |-> <<>>, busy |-> FALSE, success |-> FALSE, code |-> 0]

\* read_ota_status (lines 244-268): every status it may return, or raise.
read_ota_status(dev) ==
    {IoFailed(out) : out \in IoOutcomes(dev) \ {"ok"}}
    \cup (IF "ok" \in IoOutcomes(dev) THEN {DecodeStatus(v) : v \in StatusValues} ELSE {})

\* read_io_buffer (lines 348-356): the exception raised and the value returned.
read_io_buffer(dev, values) ==
    {[exc |-> IoExc(out, "read ota_buffer"), value |-> <<>>] : out \in IoOutcomes(dev) \ {"ok"}}
    \cup (IF "ok" \in IoOutcomes(dev) THEN {[exc |-> NoExc, value |-> v] : v \in values} ELSE {})

\* read_device_info (lines 197-216): the exception raised, or NoExc.
read_device_info(dev) ==
    {IoExc(out, "read device information") : out \in IoOutcomes(dev) \ {"ok"}}
    \cup (IF "ok" \in IoOutcomes(dev) THEN {NoExc} ELSE {})

\* read_ota_eeprom_info (lines 218-242): the exception raised, the bytes read from
\* ota_flash_bank and the value returned for them.
read_ota_eeprom_info(dev) ==
    {[exc |-> IoExc(out, "read OTA EEPROM info"), raw |-> <<>>, ota_flash_bank |-> PyNone] :
        out \in IoOutcomes(dev) \ {"ok"}}
    \cup (IF "ok" \in IoOutcomes(dev)
          THEN {[exc |-> NoExc, raw |-> raw, ota_flash_bank |-> HexOrNone(raw)] :
                    raw \in BankRawValues}
          ELSE {})

\* The reads of the channel a client may call.
ChannelReads == {"read_ota_status", "read_io_buffer", "read_device_info", "read_ota_eeprom_info"}

\* The first attribute each of them reads.
FirstAttribute ==
    [read_ota_status |-> "ota_main", read_io_buffer |-> "ota_buffer",
     read_device_info |-> "system_id", read_ota_eeprom_info |-> "ota_flash_bank"]

\* What _ensure_connected raises (line 29).
NotConnected == Exc("RuntimeError", "Device is not connected")

\* One call of a read of the channel: the exception it raised and the attributes
\* whose read reached the client (none when _ensure_connected raised).
ChannelRead(call, dev) ==
    LET excs == CASE call = "read_ota_status" -> {r.exc : r \in read_ota_status(dev)}
                  [] call = "read_io_buffer" ->
                        {r.exc : r \in read_io_buffer(dev, {<<>>, FlashBytes(0, 32)})}
                  [] call = "read_device_info" -> read_device_info(dev)
                  [] call = "read_ota_eeprom_info" ->
                        {r.exc : r \in read_ota_eeprom_info(dev)}
    IN  {[exc |-> e, io |-> IF e = NotConnected THEN <<>> ELSE <<FirstAttribute[call]>>] :
            e \in excs}

-----------------------------------------------------------------------------
(* flashtool.py: arguments *)

NotAFile == -1

CHUNK == 512

BankAAddress == 4096        \* 0x00001000
BankBAddress == 225280      \* 0x00037000
BankLength == 221184        \* 0x00036000

CliModes ==
    {"info", "devinfo", "otainfo", "read", "write", "erase", "verify", "reboot", "commit", "flash"}
AuthModes == {"read", "write", "erase", "verify", "commit", "reboot", "flash"}

\* --aes-key as typed: the number of characters and whether all are hex digits.
NoKeyArg == [given |-> FALSE, chars |-> 0, hex |-> TRUE]
KeyArg(chars, hex) == [given |-> TRUE, chars |-> chars, hex |-> hex]

ArgsInit ==
    [address |-> PyNone, length |-> PyNone, filepath |-> "none", bank_a |-> "none",
     bank_b |-> "none", aes_key |-> NoKeyArg, write_no_rsp |-> FALSE]

\* _validate_args (lines 533-559): the arguments pass.
validate_args(m, a) ==
    /\ m \in AuthModes => (a.aes_key.given /\ a.aes_key.chars = 32 /\ a.aes_key.hex)
    /\ m \in {"read", "write", "erase", "verify"} => ~IsNone(a.address)
    /\ m \in {"read", "erase", "verify"} => ~IsNone(a.length)
    /\ m \in {"write", "verify"} => a.filepath # "none"
    /\ m = "flash" => (a.bank_a # "none" /\ a.bank_b # "none")

\* bytes.fromhex(args.aes_key) if args.aes_key else None (line 112): the exception raised.
AesKeyExc(k) ==
    IF k.given /\ k.chars > 0 /\ (~k.hex \/ k.chars % 2 = 1)
    THEN Exc("ValueError", "non-hexadecimal number found in fromhex()")
    ELSE NoExc

\* bytes.fromhex(args.aes_key) if args.aes_key else None (line 112): the value.
AesKey(k) == IF k.given /\ k.chars > 0 THEN Key(k.chars \div 2) ELSE PyNone

IsFile(path) == path # "none" /\ files[path] # NotAFile

-----------------------------------------------------------------------------
(* flashtool.py: the flows *)

Running(at) == mode # "api" /\ pc = at /\ exit = "running"

\* A faulty exit: the failure leaves with status 0.
SysExitZero == pc' = "exit" /\ exit' = "0"

\* sys.exit(1)
SysExit == pc' = "exit" /\ exit' = "1"

\* An exception nothing catches: asyncio.run re-raises it out of main().
Uncaught == pc' = "exit" /\ exit' = "exception"

\* The end of a do_cmd_* function: `if disconnect: await device.disconnect()`,
\* then the return to do_cmd_flash at `next`, or the end of the run.
Finish(next) ==
    IF mode = "flash"
    THEN pc' = next /\ UNCHANGED <<device, exit>>
    ELSE device' = Disconnect(device) /\ pc' = "exit" /\ exit' = "0"

Returned == sc.step \in {"done", "raised"}

\* The locals of a do_cmd_* function on entry; flash_flags of do_cmd_flash lives on.
NewLoc == [LocInit EXCEPT !.flash_bank = loc.flash_bank]

\* _async_main (lines 566-574): _validate_args, then the dispatch.
async_main ==
    /\ Running("main")
    /\ IF validate_args(mode, args)
       THEN pc' = "connect" /\ UNCHANGED exit
       ELSE SysExit
    /\ UNCHANGED <<mode, args, files, device, controller, loc, sc, xlog, mon>>

\* Where connect_ble returns to: the do_cmd_* function of the mode, and in
\* the flash workflow the do_cmd_* function of the step.
ConnectReturn ==
    [connect |-> mode, connect_erase |-> "erase", connect_write |-> "write",
     connect_verify |-> "verify", connect_commit |-> "commit"]

\* A faulty connect_ble: the connection made before is never used again.
ConnectBleNeverCached(dev, ctl) == FALSE

\* connect_ble (line 94): g_device is not None and g_controller is not None.
ConnectBleCached(dev, ctl) == dev.exists /\ ctl.exists

\* connect_ble (lines 91-117), called first by every do_cmd_* function.
connect_ble ==
    /\ pc \in DOMAIN ConnectReturn /\ mode # "api" /\ exit = "running"
    /\ IF ConnectBleCached(device, controller)
       THEN pc' = ConnectReturn[pc] /\ UNCHANGED <<device, controller, mon, exit>>
       ELSE \E out \in ConnectOutcomes :
              LET dev == Connect(NewDevice(IF args.write_no_rsp THEN "False" ELSE "None"), out)
                  key == AesKey(args.aes_key)
              IN  /\ device' = dev
                  /\ mon' = [mon EXCEPT !.connects = @ + 1]
                  /\ IF /\ out = "ok"
                        /\ AesKeyExc(args.aes_key) = NoExc
                        /\ ControllerInitExc(key) = NoExc
                     THEN /\ controller' = AutoOTAController(key)
                          /\ pc' = ConnectReturn[pc]
                          /\ UNCHANGED exit
                     ELSE UNCHANGED controller /\ SysExit
    /\ UNCHANGED <<mode, args, files, loc, sc, xlog>>

\* do_cmd_info (lines 164-171) up to print_device_info; do_cmd_devinfo (lines 174-180).
do_cmd_devinfo ==
    /\ Running("info") \/ Running("devinfo")
    /\ \E e \in read_device_info(device) :
         /\ mon' = [mon EXCEPT !.infoFailed = (e # NoExc)]
         /\ IF e # NoExc THEN SysExit /\ UNCHANGED device
            ELSE IF mode = "info" THEN pc' = "otainfo" /\ UNCHANGED <<device, exit>>
            ELSE Finish("exit")
    /\ UNCHANGED <<mode, args, files, controller, loc, sc, xlog>>

\* do_cmd_otainfo (lines 183-189); do_cmd_info from print_ota_info on.
do_cmd_otainfo ==
    /\ Running("otainfo")
    /\ \E r \in read_ota_eeprom_info(device) :
         IF r.exc # NoExc THEN SysExit /\ UNCHANGED device
         ELSE Finish("exit")
    /\ UNCHANGED <<mode, args, files, controller, loc, sc, xlog, mon>>

\* A faulty chunked read: every chunk asks for the full chunk size.
ReadChunkFull(l) == AutoOTAReadCommand(PyInt(l.address), PyInt(CHUNK))

\* The Read command of one turn of the loop (lines 221-222).
ReadChunk(l) == AutoOTAReadCommand(PyInt(l.address), PyInt(l.chunk_length))

\* do_cmd_read (lines 192-224): up to the first send_command.
do_cmd_read ==
    /\ Running("read")
    /\ IF IsFile(args.filepath)
       THEN SysExit /\ UNCHANGED <<loc, sc, xlog>>
       ELSE LET l == [NewLoc EXCEPT !.remain_length = args.length.v,
                                     !.address = args.address.v,
                                     !.chunk_length = Min(args.length.v, CHUNK)]
            IN  /\ loc' = l
                /\ sc' = send_command(controller, device, ReadChunk(l))
                /\ xlog' = <<>>
                /\ pc' = "read_await"
                /\ UNCHANGED exit
    /\ UNCHANGED <<mode, args, files, device, controller, mon>>

\* do_cmd_read (lines 225-256): after a send_command, to the next one or to the end.
do_cmd_read_chunk ==
    /\ Running("read_await")
    /\ Returned
    /\ IF sc.step = "raised"
       THEN SysExit /\ UNCHANGED <<device, loc, sc, xlog>>
       ELSE LET l == [loc EXCEPT !.flash_dump = BCat(@, sc.result.v),
                                 !.address = @ + loc.chunk_length,
                                 !.remain_length = @ - loc.chunk_length,
                                 !.process_length = @ + loc.chunk_length]
                n == [l EXCEPT !.chunk_length = Min(l.remain_length, CHUNK)]
            IN  IF l.remain_length <= 0
                THEN loc' = l /\ sc' = NoCall /\ xlog' = <<>> /\ Finish("exit")
                ELSE /\ loc' = n
                     /\ sc' = send_command(controller, device, ReadChunk(n))
                     /\ xlog' = <<>>
                     /\ UNCHANGED <<device, pc, exit>>
    /\ UNCHANGED <<mode, args, files, controller, mon>>

\* The Program command of one turn of the loop (lines 283-284).
WriteChunk(l) ==
    AutoOTAProgramCommand(PyInt(l.address),
        PyBytes(BSlice(l.flash_data, l.process_length, l.process_length + l.chunk_length)))

\* A faulty length of the write: the whole file, whatever --length says.
LengthAll(flash_data, length) == BLen(flash_data)

\* Line 278 and line 348: min(len(flash_data), args.length) if args.length else len(flash_data)
LengthOrAll(flash_data, length) ==
    IF Truthy(length) THEN Min(BLen(flash_data), length.v) ELSE BLen(flash_data)

\* do_cmd_write (lines 258-286): up to the first send_command.
do_cmd_write ==
    /\ Running("write")
    /\ IF ~IsFile(args.filepath)
       THEN SysExit /\ UNCHANGED <<loc, sc, xlog>>
       ELSE LET flash_data == FileBytes(args.filepath, files[args.filepath])
                remain_length == LengthOrAll(flash_data, args.length)
                l == [NewLoc EXCEPT !.flash_data = flash_data,
                                    !.remain_length = remain_length,
                                     !.address = args.address.v,
                                     !.chunk_length = Min(remain_length, CHUNK)]
            IN  /\ loc' = l
                /\ sc' = send_command(controller, device, WriteChunk(l))
                /\ xlog' = <<>>
                /\ pc' = "write_await"
                /\ UNCHANGED exit
    /\ UNCHANGED <<mode, args, files, device, controller, mon>>

\* do_cmd_write (lines 287-304): after a send_command, to the next one or to the end.
do_cmd_write_chunk ==
    /\ Running("write_await")
    /\ Returned
    /\ IF sc.step = "raised"
       THEN SysExit /\ UNCHANGED <<device, loc, sc, xlog>>
       ELSE LET l == [loc EXCEPT !.address = @ + loc.chunk_length,
                                 !.remain_length = @ - loc.chunk_length,
                                 !.process_length = @ + loc.chunk_length]
                n == [l EXCEPT !.chunk_length = Min(l.remain_length, CHUNK)]
            IN  IF l.remain_length <= 0
                THEN loc' = l /\ sc' = NoCall /\ xlog' = <<>> /\ Finish("flash_stat")
                ELSE /\ loc' = n
                     /\ sc' = send_command(controller, device, WriteChunk(n))
                     /\ xlog' = <<>>
                     /\ UNCHANGED <<device, pc, exit>>
    /\ UNCHANGED <<mode, args, files, controller, mon>>

\* The completion wait has no bound; the values of `check` are kept up to this
\* many turns of the loop.
MaxPolls == 3

\* A faulty completion wait: it ends as soon as the device is not busy.
PollBranchNotBusy(check) == IF check.busy THEN "spin" ELSE "break"

\* A faulty completion wait: a busy status ends it like a success.
PollBranchBusyEnds(check) == IF check.success \/ check.busy THEN "break" ELSE "fail"

\* A faulty completion wait: a failure status makes it read again.
PollBranchSpinOnFail(check) == IF check.success THEN "break" ELSE "spin"

\* The branch of the completion wait (lines 321-327 and 365-371).
PollBranch(check) ==
    IF check.success THEN "break" ELSE IF check.busy THEN "spin" ELSE "fail"

\* The values `check` took (line 320), the turns beyond MaxPolls left out: a
\* value that makes the loop turn again is kept while fewer than MaxPolls are,
\* the value that ends the loop always.
AppendCheck(checks, check) ==
    LET spins == check.exc = NoExc /\ PollBranch(check) = "spin"
    IN  IF Len(checks) < (IF spins THEN MaxPolls ELSE MaxPolls + 1)
        THEN Append(checks, check) ELSE checks

\* Lines 326 and 370: the status code the failure of the wait reports.
FailedCode(code, check) == IF PollBranch(check) = "fail" THEN PyInt(check.code) ELSE code

\* do_cmd_erase (lines 306-312): up to send_command.
do_cmd_erase ==
    /\ Running("erase")
    /\ loc' = NewLoc
    /\ sc' = send_command(controller, device, AutoOTAEraseCommand(args.address, args.length))
    /\ xlog' = <<>>
    /\ pc' = "erase_await"
    /\ UNCHANGED <<mode, args, files, device, controller, mon, exit>>

\* do_cmd_erase (lines 313-318): send_command returned or raised.
do_cmd_erase_sent ==
    /\ Running("erase_await")
    /\ Returned
    /\ IF sc.step = "raised"
       THEN SysExit /\ UNCHANGED <<sc, xlog>>
       ELSE pc' = "erase_poll" /\ sc' = NoCall /\ xlog' = <<>> /\ UNCHANGED exit
    /\ UNCHANGED <<mode, args, files, device, controller, loc, mon>>

\* do_cmd_erase (lines 319-330): one turn of the completion wait, read_ota_status
\* having returned (or raised) check.
do_cmd_erase_check(check) ==
    /\ Running("erase_poll")
    /\ IF check.exc # NoExc
       THEN /\ Uncaught
            /\ loc' = [loc EXCEPT !.checks = AppendCheck(@, check)]
            /\ UNCHANGED <<device, mon>>
       ELSE /\ mon' = ObserveStatus(mon, check)
            /\ loc' = [loc EXCEPT !.checks = AppendCheck(@, check),
                                   !.failed_code = FailedCode(@, check)]
            /\ CASE PollBranch(check) = "break" -> Finish("connect_write")
                 [] PollBranch(check) = "spin" -> UNCHANGED <<device, pc, exit>>
                 [] OTHER -> SysExit /\ UNCHANGED device
    /\ UNCHANGED <<mode, args, files, controller, sc, xlog>>

do_cmd_erase_poll == \E check \in read_ota_status(device) : do_cmd_erase_check(check)

\* What a read of ota_buffer may return after Verify(address, length): the digest
\* of the local data, the digest of what the flash holds, or nothing.
DigestValues(l, a) ==
    {SHA256(BSlice(l.flash_data, 0, l.length)),
     SHA256(FlashBytes(a.address.v, a.length.v)),
     <<>>}

\* do_cmd_verify (lines 333-355): up to send_command.
do_cmd_verify ==
    /\ Running("verify")
    /\ IF ~IsFile(args.filepath)
       THEN SysExit /\ UNCHANGED <<loc, sc, xlog>>
       ELSE LET flash_data == FileBytes(args.filepath, files[args.filepath])
                length == LengthOrAll(flash_data, args.length)
            IN  IF length <= 0
                THEN SysExit /\ UNCHANGED <<loc, sc, xlog>>
                ELSE /\ loc' = [NewLoc EXCEPT !.flash_data = flash_data, !.length = length]
                     /\ sc' = send_command(controller, device,
                                           AutoOTAVerifyCommand(args.address, args.length))
                     /\ xlog' = <<>>
                     /\ pc' = "verify_await"
                     /\ UNCHANGED exit
    /\ UNCHANGED <<mode, args, files, device, controller, mon>>

\* do_cmd_verify (lines 356-362): send_command returned or raised.
do_cmd_verify_sent ==
    /\ Running("verify_await")
    /\ Returned
    /\ IF sc.step = "raised"
       THEN SysExit /\ UNCHANGED <<sc, xlog>>
       ELSE pc' = "verify_poll" /\ sc' = NoCall /\ xlog' = <<>> /\ UNCHANGED exit
    /\ UNCHANGED <<mode, args, files, device, controller, loc, mon>>

\* do_cmd_verify (lines 363-372): one turn of the completion wait, read_ota_status
\* having returned (or raised) check.
do_cmd_verify_check(check) ==
    /\ Running("verify_poll")
    /\ IF check.exc # NoExc
       THEN /\ Uncaught
            /\ loc' = [loc EXCEPT !.checks = AppendCheck(@, check)]
            /\ UNCHANGED mon
       ELSE /\ mon' = ObserveStatus(mon, check)
            /\ loc' = [loc EXCEPT !.checks = AppendCheck(@, check),
                                   !.failed_code = FailedCode(@, check)]
            /\ CASE PollBranch(check) = "break" -> pc' = "verify_iobuf" /\ UNCHANGED exit
                 [] PollBranch(check) = "spin" -> UNCHANGED <<pc, exit>>
                 [] OTHER -> SysExit
    /\ UNCHANGED <<mode, args, files, device, controller, sc, xlog>>

do_cmd_verify_poll == \E check \in read_ota_status(device) : do_cmd_verify_check(check)

\* A faulty local digest: the whole file is hashed.
LocalDigestOfFile(l) == SHA256(l.flash_data)

\* do_cmd_verify (lines 379-383): the SHA-256 of flash_data[:length].
LocalDigest(l) == SHA256(BSlice(l.flash_data, 0, l.length))

\* do_cmd_verify (lines 374-391): the digest is read and compared.
do_cmd_verify_result ==
    /\ Running("verify_iobuf")
    /\ \E r \in read_io_buffer(device, DigestValues(loc, args)) :
         IF r.exc # NoExc
         THEN Uncaught /\ UNCHANGED <<device, loc, mon>>
         ELSE LET calculated_sha256 == LocalDigest(loc)
              IN  /\ loc' = [loc EXCEPT !.sha256_result = r.value]
                  /\ mon' = [mon EXCEPT !.digest = PyBytes(r.value)]
                  /\ device' = IF mode = "flash" THEN device ELSE Disconnect(device)
                  /\ IF calculated_sha256 # r.value THEN SysExit
                     ELSE IF mode = "flash" THEN pc' = "connect_commit" /\ UNCHANGED exit
                     ELSE pc' = "exit" /\ exit' = "0"
    /\ UNCHANGED <<mode, args, files, controller, sc, xlog>>

\* do_cmd_reboot (lines 393-399) and do_cmd_commit (lines 409-415): up to send_command.
do_cmd_reboot ==
    /\ Running("reboot")
    /\ loc' = NewLoc
    /\ sc' = send_command(controller, device, AutoOTARebootCommand)
    /\ xlog' = <<>>
    /\ pc' = "reboot_await"
    /\ UNCHANGED <<mode, args, files, device, controller, mon, exit>>

do_cmd_commit ==
    /\ Running("commit")
    /\ loc' = NewLoc
    /\ sc' = send_command(controller, device, AutoOTAConfirmCommand)
    /\ xlog' = <<>>
    /\ pc' = "commit_await"
    /\ UNCHANGED <<mode, args, files, device, controller, mon, exit>>

\* Faulty handlers: every exception of send_command is a failure.
ToleratedNone(call) == call.step = "done"

\* The handlers of lines 400-404 and 416-420: the run goes on to the disconnect.
Tolerated(call) == call.step = "done" \/ ~IsBleakError(call.exc)

\* do_cmd_reboot (lines 400-406): send_command returned or raised.
do_cmd_reboot_sent ==
    /\ Running("reboot_await")
    /\ Returned
    /\ IF Tolerated(sc)
       THEN device' = Disconnect(device) /\ pc' = "exit" /\ exit' = "0"
       ELSE SysExit /\ UNCHANGED device
    /\ UNCHANGED <<mode, args, files, controller, loc, sc, xlog, mon>>

\* do_cmd_commit (lines 416-422), and the end of do_cmd_flash (line 470).
do_cmd_commit_sent ==
    /\ Running("commit_await")
    /\ Returned
    /\ IF Tolerated(sc)
       THEN device' = Disconnect(device) /\ pc' = "exit" /\ exit' = "0"
       ELSE SysExit /\ UNCHANGED device
    /\ UNCHANGED <<mode, args, files, controller, loc, sc, xlog, mon>>

\* do_cmd_flash (lines 424-439): the bank files, then print_device_info, whose
\* failure (the SystemExit of line 126 included) the bare except swallows.
do_cmd_flash ==
    /\ Running("flash")
    /\ IF ~IsFile(args.bank_a) \/ ~IsFile(args.bank_b)
       THEN SysExit /\ UNCHANGED mon
       ELSE \E e \in read_device_info(device) :
              /\ mon' = [mon EXCEPT !.infoFailed = (e # NoExc)]
              /\ pc' = "flash_ota"
              /\ UNCHANGED exit
    /\ UNCHANGED <<mode, args, files, device, controller, loc, sc, xlog>>

\* A faulty choice of the bank: every value but a5a5a5a5 selects bank A.
BankTargetDefaultA(ota_flash_bank, a) ==
    IF ota_flash_bank = PyStr("a5a5a5a5")
    THEN [known |-> TRUE, address |-> BankBAddress, length |-> BankLength, filepath |-> a.bank_b]
    ELSE [known |-> TRUE, address |-> BankAAddress, length |-> BankLength, filepath |-> a.bank_a]

\* A faulty choice of the bank: every value but 5a5a5a5a selects bank B.
BankTargetDefaultB(ota_flash_bank, a) ==
    IF ota_flash_bank = PyStr("5a5a5a5a")
    THEN [known |-> TRUE, address |-> BankAAddress, length |-> BankLength, filepath |-> a.bank_a]
    ELSE [known |-> TRUE, address |-> BankBAddress, length |-> BankLength, filepath |-> a.bank_b]

\* A faulty choice of the bank: the bank in use is the one written.
BankTargetSwapped(ota_flash_bank, a) ==
    IF ota_flash_bank = PyStr("a5a5a5a5")
    THEN [known |-> TRUE, address |-> BankAAddress, length |-> BankLength, filepath |-> a.bank_a]
    ELSE IF ota_flash_bank = PyStr("5a5a5a5a")
    THEN [known |-> TRUE, address |-> BankBAddress, length |-> BankLength, filepath |-> a.bank_b]
    ELSE [known |-> FALSE, address |-> 0, length |-> 0, filepath |-> "none"]

\* Lines 443-455: the target for this value of ota_flash_bank, or no target.
BankTarget(ota_flash_bank, a) ==
    IF ota_flash_bank = PyStr("a5a5a5a5")
    THEN [known |-> TRUE, address |-> BankBAddress, length |-> BankLength, filepath |-> a.bank_b]
    ELSE IF ota_flash_bank = PyStr("5a5a5a5a")
    THEN [known |-> TRUE, address |-> BankAAddress, length |-> BankLength, filepath |-> a.bank_a]
    ELSE [known |-> FALSE, address |-> 0, length |-> 0, filepath |-> "none"]

\* do_cmd_flash (lines 441-455): print_ota_info and the choice of the bank.
do_cmd_flash_bank ==
    /\ Running("flash_ota")
    /\ \E r \in read_ota_eeprom_info(device) :
         IF r.exc # NoExc
         THEN SysExit /\ mon' = [mon EXCEPT !.bankRaw = PyNone] /\ UNCHANGED <<args, loc>>
         ELSE LET t == BankTarget(r.ota_flash_bank, args)
              IN  /\ loc' = [loc EXCEPT !.flash_bank = r.ota_flash_bank]
                  /\ mon' = [mon EXCEPT !.bankRaw = PyBytes(r.raw)]
                  /\ IF t.known
                     THEN /\ args' = [args EXCEPT !.address = PyInt(t.address),
                                                  !.length = PyInt(t.length),
                                                  !.filepath = t.filepath]
                          /\ pc' = "connect_erase"
                          /\ UNCHANGED exit
                     ELSE SysExit /\ UNCHANGED args
    /\ UNCHANGED <<mode, files, device, controller, sc, xlog>>

\* do_cmd_flash (line 464): args.length = Path(args.filepath).stat().st_size
do_cmd_flash_stat ==
    /\ Running("flash_stat")
    /\ args' = [args EXCEPT !.length = PyInt(files[args.filepath])]
    /\ pc' = "connect_verify"
    /\ UNCHANGED <<mode, files, device, controller, loc, sc, xlog, mon, exit>>

-----------------------------------------------------------------------------
(* The runs *)

NoFiles == [f \in {"F", "A", "B"} |-> NotAFile]

ValidKeyArg == KeyArg(32, TRUE)
KeyArgs == {NoKeyArg, ValidKeyArg, KeyArg(4, TRUE), KeyArg(3, TRUE), KeyArg(32, FALSE)}

AddressArgs == {4096, -1}
LengthArgs == {-5, 0, 1, 512, 513, 1030}
FileSizes == {NotAFile, 0, 1, 512, 513, 1030}
BankASizes == {NotAFile, 0, 700}
BankBSizes == {NotAFile, 700, BankLength + 1}

Config(m, a, f) == [mode |-> m, args |-> a, files |-> f]

AuthArgs(w) == [ArgsInit EXCEPT !.aes_key = ValidKeyArg, !.write_no_rsp = w]

InfoConfigs ==
    {Config(m, [ArgsInit EXCEPT !.aes_key = k, !.write_no_rsp = w], NoFiles) :
        m \in {"info", "devinfo", "otainfo"}, k \in KeyArgs, w \in BOOLEAN}

ReadConfigs ==
    {Config("read", [AuthArgs(w) EXCEPT !.address = PyInt(a), !.length = PyInt(n), !.filepath = p],
            [NoFiles EXCEPT !["F"] = s]) :
        a \in AddressArgs, n \in LengthArgs, p \in {"none", "F"}, s \in {NotAFile, 1}, w \in BOOLEAN}

WriteConfigs ==
    {Config("write", [AuthArgs(w) EXCEPT !.address = PyInt(a), !.length = n, !.filepath = "F"],
            [NoFiles EXCEPT !["F"] = s]) :
        a \in AddressArgs, n \in {PyNone} \cup {PyInt(i) : i \in LengthArgs},
        s \in FileSizes, w \in BOOLEAN}

EraseConfigs ==
    {Config("erase", [AuthArgs(w) EXCEPT !.address = PyInt(a), !.length = PyInt(n)], NoFiles) :
        a \in AddressArgs, n \in LengthArgs, w \in BOOLEAN}

VerifyConfigs ==
    {Config("verify", [AuthArgs(w) EXCEPT !.address = PyInt(a), !.length = PyInt(n), !.filepath = "F"],
            [NoFiles EXCEPT !["F"] = s]) :
        a \in AddressArgs, n \in LengthArgs, s \in FileSizes, w \in BOOLEAN}

RebootConfigs ==
    {Config(m, AuthArgs(w), NoFiles) : m \in {"reboot", "commit"}, w \in BOOLEAN}

FlashConfigs ==
    {Config("flash", [AuthArgs(w) EXCEPT !.bank_a = "A", !.bank_b = "B"],
            [NoFiles EXCEPT !["A"] = sa, !["B"] = sb]) :
        sa \in BankASizes, sb \in BankBSizes, w \in BOOLEAN}

\* Command lines that _validate_args turns down.
RejectedConfigs ==
    {Config(m, [AuthArgs(FALSE) EXCEPT !.aes_key = k], NoFiles) :
        m \in AuthModes, k \in KeyArgs \ {ValidKeyArg}}
    \cup {Config(m, AuthArgs(FALSE), NoFiles) : m \in {"read", "write", "erase", "verify", "flash"}}
    \cup {Config(m, [AuthArgs(FALSE) EXCEPT !.address = PyInt(4096)], NoFiles) :
            m \in {"read", "write", "erase", "verify"}}

CliConfigs ==
    InfoConfigs \cup ReadConfigs \cup WriteConfigs \cup EraseConfigs \cup VerifyConfigs
    \cup RebootConfigs \cup FlashConfigs \cup RejectedConfigs

InitCli ==
    /\ \E c \in CliConfigs : mode = c.mode /\ args = c.args /\ files = c.files
    /\ device = NoDevice
    /\ controller = NoController
    /\ pc = "main"
    /\ loc = LocInit
    /\ sc = NoCall
    /\ xlog = <<>>
    /\ mon = MonInit
    /\ exit = "running"

InitApi ==
    /\ mode = "api"
    /\ args = ArgsInit
    /\ files = NoFiles
    /\ \E write_resp \in {"None", "False", "True"} : device = NewDevice(write_resp)
    /\ controller = NoController
    /\ pc = "api"
    /\ loc = LocInit
    /\ sc = NoCall
    /\ xlog = <<>>
    /\ mon = MonInit
    /\ exit = "running"

Init == InitApi \/ InitCli

Next ==
    \/ send_command_write_buffer
    \/ send_command_read_challenge
    \/ send_command_write_token
    \/ send_command_write_main
    \/ send_command_read_result
    \/ api_controller
    \/ api_connect
    \/ api_disconnect
    \/ api_send_command
    \/ api_return
    \/ async_main
    \/ connect_ble
    \/ do_cmd_devinfo
    \/ do_cmd_otainfo
    \/ do_cmd_read
    \/ do_cmd_read_chunk
    \/ do_cmd_write
    \/ do_cmd_write_chunk
    \/ do_cmd_erase
    \/ do_cmd_erase_sent
    \/ do_cmd_erase_poll
    \/ do_cmd_verify
    \/ do_cmd_verify_sent
    \/ do_cmd_verify_poll
    \/ do_cmd_verify_result
    \/ do_cmd_reboot
    \/ do_cmd_commit
    \/ do_cmd_reboot_sent
    \/ do_cmd_commit_sent
    \/ do_cmd_flash
    \/ do_cmd_flash_bank
    \/ do_cmd_flash_stat

Spec == Init /\ [][Next]_vars

\* A turn of a completion wait in which the device does not report busy: it
\* reports success or a failure, or the read raises.
StatusNotBusy ==
    \E check \in read_ota_status(device) :
        /\ ~(check.exc = NoExc /\ check.busy)
        /\ (do_cmd_erase_check(check) \/ do_cmd_verify_check(check))

\* The runs in which a device that is being waited for does not report busy for
\* ever: the loops of lines 319 and 363 read again after every busy status, so
\* such a device is read in its other state at some turn.
FairSpec == Init /\ [][Next]_vars /\ WF_vars(StatusNotBusy)

-----------------------------------------------------------------------------
(* The commands on their own: a library client validates and encodes one *)

\* The keyword arguments a client may build a command with.
CmdAddressValues ==
    {PyNone, PyStr("0x1000")}
    \cup {PyInt(v) : v \in {-1, 0, 1, 255, 256, 4096, 8192, 65535, 65536, 16777216,
                             305419896, 2147483647}}
CmdLengthValues ==
    {PyNone, PyStr("4")} \cup {PyInt(v) : v \in {-1, 0, 1, 256, 512, 221184, 2147483647}}
CmdDataValues == {PyNone, PyStr("abc"), Data(0), Data(3)}
CmdValues ==
    {Command(cls, address, length, data) :
        cls \in Classes, address \in CmdAddressValues,
        length \in CmdLengthValues, data \in CmdDataValues}

\* The client holds a command and is about to validate it.
InitCommand ==
    /\ mode = "api"
    /\ args = ArgsInit
    /\ files = NoFiles
    /\ device = NewDevice("None")
    /\ controller = NoController
    /\ pc = "cmd_validate"
    /\ \E cmd \in CmdValues :
         loc = [call |-> "cmd_validate", cmd |-> cmd, exc |-> NoExc,
                cmd_bytes |-> Unbound, cmd_iobuf |-> Unbound]
    /\ sc = NoCall
    /\ xlog = <<>>
    /\ mon = MonInit
    /\ exit = "running"

\* cmd.cmd_validate(): it returns, or raises and the client drops the command.
api_cmd_validate ==
    /\ mode = "api" /\ pc = "cmd_validate" /\ exit = "running"
    /\ loc' = [loc EXCEPT !.exc = cmd_validate(loc.cmd)]
    /\ pc' = IF cmd_validate(loc.cmd) = NoExc THEN "cmd_to_bytes" ELSE "api"
    /\ UNCHANGED <<mode, args, files, device, controller, sc, xlog, mon, exit>>

\* cmd.cmd_to_bytes() and cmd.cmd_get_iobuf() of a validated command (the order
\* of send_command, lines 276-284).
api_cmd_to_bytes ==
    /\ mode = "api" /\ pc = "cmd_to_bytes" /\ exit = "running"
    /\ loc' = IF cmd_to_bytes_exc(loc.cmd) = NoExc
              THEN [loc EXCEPT !.call = "cmd_to_bytes",
                               !.cmd_bytes = PyBytes(cmd_to_bytes(loc.cmd)),
                               !.cmd_iobuf = cmd_get_iobuf(loc.cmd)]
              ELSE [loc EXCEPT !.call = "cmd_to_bytes", !.exc = cmd_to_bytes_exc(loc.cmd)]
    /\ pc' = "api"
    /\ UNCHANGED <<mode, args, files, device, controller, sc, xlog, mon, exit>>

NextCommand == api_cmd_validate \/ api_cmd_to_bytes

CommandSpec == InitCommand /\ [][NextCommand]_vars

-----------------------------------------------------------------------------
(* A library client that holds a controller and calls the channel *)

\* client code: await controller.read_ota_status(), read_io_buffer(),
\* read_device_info() or read_ota_eeprom_info()
api_read(call) ==
    /\ ApiIdle
    /\ controller.exists
    /\ \E r \in ChannelRead(call, device) :
         loc' = [loc EXCEPT !.call = call, !.exc = r.exc, !.io = r.io]
    /\ mon' = [mon EXCEPT !.calls = @ + 1]
    /\ UNCHANGED <<mode, args, files, device, controller, pc, sc, xlog, exit>>

api_read_channel == \E call \in ChannelReads : api_read(call)

\* The client built its device and its controller, with a key or without one.
InitChannel ==
    /\ mode = "api"
    /\ args = ArgsInit
    /\ files = NoFiles
    /\ device = NewDevice("None")
    /\ \E aes_key \in {PyNone, Key(16)} : controller = AutoOTAController(aes_key)
    /\ pc = "api"
    /\ loc = LocInit
    /\ sc = NoCall
    /\ xlog = <<>>
    /\ mon = MonInit
    /\ exit = "running"

NextChannel ==
    \/ send_command_write_buffer
    \/ send_command_read_challenge
    \/ send_command_write_token
    \/ send_command_write_main
    \/ send_command_read_result
    \/ api_connect
    \/ api_disconnect
    \/ api_send_command
    \/ api_return
    \/ api_read_channel

ChannelSpec == InitChannel /\ [][NextChannel]_vars

-----------------------------------------------------------------------------
(* A library client that signs several commands and compares the exchanges *)

\* Two keys of 16 bytes.
TokenKeys == {Key(16), PyBytes(<<Run(KeySrc("L"), 0, 16)>>)}

\* A command without payload and Programs that differ in the payload only.
TokenCommands ==
    {AutoOTARebootCommand,
     AutoOTAProgramCommand(PyInt(4096), Data(3)),
     AutoOTAProgramCommand(PyInt(4096), Data(2))}

\* client code: controller = AutoOTAController(device, aes_key), with another key
api_rekey == api_new_controller(TokenKeys)

\* client code: await controller.send_command(cmd)
api_send_token == api_send(TokenCommands)

\* send_command returned or raised; the client keeps what the exchange signed, if
\* it came to signing.
api_return_keep ==
    /\ mode = "api" /\ pc = "api_await" /\ exit = "running"
    /\ sc.step \in {"done", "raised"}
    /\ pc' = "api"
    /\ loc' = [loc EXCEPT !.exc = sc.exc,
                           !.prev = IF sc.token_signature # <<>>
                                    THEN Signing(controller.aes_key, sc) ELSE @]
    /\ sc' = NoCall
    /\ xlog' = <<>>
    /\ UNCHANGED <<mode, args, files, device, controller, mon, exit>>

\* A connected session and a controller with a key.
InitToken ==
    /\ mode = "api"
    /\ args = ArgsInit
    /\ files = NoFiles
    /\ device = Connect(NewDevice("None"), "ok")
    /\ \E aes_key \in TokenKeys : controller = AutoOTAController(aes_key)
    /\ pc = "api"
    /\ loc = LocInit
    /\ sc = NoCall
    /\ xlog = <<>>
    /\ mon = MonInit
    /\ exit = "running"

NextToken ==
    \/ send_command_write_buffer
    \/ send_command_read_challenge
    \/ send_command_write_token
    \/ send_command_write_main
    \/ api_rekey
    \/ api_send_token
    \/ api_return_keep

TokenSpec == InitToken /\ [][NextToken]_vars

-----------------------------------------------------------------------------
(* read_ota_status on its own: a library client reads the status once *)

\* Every two bytes a read of ota_main may return.
StatusPairs == {Lits(<<byte0, byte1>>) : byte0 \in 0..255, byte1 \in 0..255}

\* A connected device whose ota_main holds status_data; the client is about to
\* call read_ota_status.
InitStatus ==
    /\ mode = "api"
    /\ args = ArgsInit
    /\ files = NoFiles
    /\ device = Connect(NewDevice("None"), "ok")
    /\ controller = [exists |-> TRUE, aes_key |-> PyNone]
    /\ pc = "read_ota_status"
    /\ \E status_data \in StatusPairs :
         loc = [call |-> "read_ota_status", status_data |-> status_data, result |-> Unbound]
    /\ sc = NoCall
    /\ xlog = <<>>
    /\ mon = MonInit
    /\ exit = "running"

\* read_ota_status (lines 244-268): the read of ota_main raises, or its bytes
\* are decoded.
api_read_ota_status ==
    /\ mode = "api" /\ pc = "read_ota_status" /\ exit = "running"
    /\ \E out \in IoOutcomes(device) :
         loc' = [loc EXCEPT !.result = IF out = "ok" THEN DecodeStatus(loc.status_data)
                                       ELSE IoFailed(out)]
    /\ pc' = "api"
    /\ UNCHANGED <<mode, args, files, device, controller, sc, xlog, mon, exit>>

NextStatus == api_read_ota_status

StatusSpec == InitStatus /\ [][NextStatus]_vars

-----------------------------------------------------------------------------
(* Properties of the command exchange (send_command) *)

IsPrefix(s, t) == Len(s) <= Len(t) /\ \A i \in 1..Len(s) : s[i] = t[i]

\* The operations of the exchange in progress, as (operation, attribute) pairs.
OpShape(log) == [i \in 1..Len(log) |-> <<log[i].op, log[i].attr>>]

IsWrite(o, attr) == o.op = "write" /\ o.attr = attr
IsRead(o, attr) == o.op = "read" /\ o.attr = attr

\* The command carries a payload: it is a Program with at least one byte of data.
CarriesPayload(cmd) == cmd.cls = "Program" /\ IsBytes(cmd.data) /\ BLen(cmd.data.v) > 0

\* The order send_command is to follow for this command.
ExchangeOrder(cmd) ==
    (IF CarriesPayload(cmd) THEN << <<"write", "ota_buffer">> >> ELSE <<>>)
    \o << <<"read", "ota_challenge">>, <<"write", "ota_token">>, <<"write", "ota_main">> >>
    \o (IF cmd.cls = "Read" THEN << <<"read", "ota_buffer">> >> ELSE <<>>)

\* The step failed: the operation raised, or the challenge read gave nothing.
StepFailed(o) == ~o.ok \/ (IsRead(o, "ota_challenge") /\ BLen(o.val) = 0)

\* C1: in every execution of send_command the attribute operations are, in this
\* order, the write of the payload to ota_buffer (only for a command with a
\* payload), the read of ota_challenge, the write of the signature to ota_token,
\* the write of the command to ota_main and the read of ota_buffer (only for a
\* command with a result); none is repeated or reordered, a call that returns
\* has made them all, and a failed step is the last step of its exchange.
C1_ExchangeOrder ==
    /\ sc.step = "idle" => xlog = <<>>
    /\ sc.step # "idle" =>
         /\ IsPrefix(OpShape(xlog), ExchangeOrder(sc.cmd))
         /\ \A i \in 1..(Len(xlog) - 1) : ~StepFailed(xlog[i])
         /\ (xlog # <<>> /\ StepFailed(xlog[Len(xlog)])) => sc.step = "raised"
         /\ sc.step = "done" => OpShape(xlog) = ExchangeOrder(sc.cmd)

\* A Program with a payload went through all four of its steps.
C1_Witness ==
    sc.step = "done" /\ CarriesPayload(sc.cmd) /\ Len(xlog) = 4

\* The parameters of the command are missing or malformed.
Malformed(cmd) ==
    \/ /\ cmd.cls \in {"Read", "Erase", "Verify"}
       /\ (~IsInt(cmd.address) \/ ~IsInt(cmd.length) \/ cmd.length.v <= 0)
    \/ /\ cmd.cls = "Program"
       /\ (~IsInt(cmd.address) \/ ~IsBytes(cmd.data))

\* C5: send_command on a command with missing or malformed parameters fails
\* before any attribute read or write: ota_challenge is not read and nothing is
\* written to ota_buffer, ota_token or ota_main.
C5_MalformedCommandNoIo ==
    (sc.step # "idle" /\ Malformed(sc.cmd)) =>
        /\ sc.step = "raised"
        /\ sc.exc.kind \in {"ValueError", "TypeError", "RuntimeError"}
        /\ xlog = <<>>

\* A connected controller with a key turned down a command with a bad length.
C5_Witness ==
    /\ sc.step = "raised" /\ Malformed(sc.cmd) /\ sc.exc.kind = "TypeError"
    /\ sc.cmd.cls \in {"Read", "Erase", "Verify"} /\ IsInt(sc.cmd.length)
    /\ Connected(device) /\ ~IsNone(controller.aes_key)
    /\ xlog = <<>>

ValidKey(k) == IsBytes(k) /\ BLen(k.v) = 16

\* C6: a command is written to ota_main only by a controller holding a key of
\* exactly 16 bytes; a controller is never built with a key of another length
\* or type (the constructor raises), and send_command on a controller without
\* a key raises "AES key is not set" whatever the command and the connection
\* are, with no attribute operation made.
C6_KeyRequired ==
    /\ \A i \in 1..Len(xlog) : IsWrite(xlog[i], "ota_main") => ValidKey(controller.aes_key)
    /\ controller.exists => (IsNone(controller.aes_key) \/ ValidKey(controller.aes_key))
    /\ (loc.call = "AutoOTAController" /\ ~IsNone(loc.aes_key) /\ ~ValidKey(loc.aes_key)) =>
           /\ loc.exc.kind \in {"TypeError", "ValueError"}
           /\ controller.aes_key # loc.aes_key
    /\ (sc.step # "idle" /\ IsNone(controller.aes_key)) =>
           /\ sc.step = "raised"
           /\ sc.exc = Exc("RuntimeError", "AES key is not set")
           /\ xlog = <<>>

\* A controller without a key was handed a malformed command while not
\* connected: the missing key is what it reports.
C6_Witness ==
    /\ sc.step = "raised" /\ IsNone(controller.aes_key) /\ controller.exists
    /\ Malformed(sc.cmd) /\ ~Connected(device)
    /\ sc.exc = Exc("RuntimeError", "AES key is not set")

\* The message a signature (a CMAC value) was computed over, and its key.
SignedMessage(signature) == signature[1].src.msg
SignedKey(signature) == signature[1].src.key

\* The exchange in progress reads one challenge at most, signs that challenge,
\* and writes its command right after the signature.
OwnChallenge ==
    sc.step # "idle" =>
        /\ Cardinality({i \in 1..Len(xlog) : IsRead(xlog[i], "ota_challenge")}) <= 1
        /\ Cardinality({i \in 1..Len(xlog) : IsWrite(xlog[i], "ota_main")}) <= 1
        /\ \A i \in 1..Len(xlog) :
             /\ IsWrite(xlog[i], "ota_token") =>
                  /\ i >= 2 /\ IsRead(xlog[i - 1], "ota_challenge") /\ xlog[i - 1].ok
                  /\ SignedKey(xlog[i].val) = controller.aes_key.v
                  /\ BDrop(SignedMessage(xlog[i].val), 32) = xlog[i - 1].val
                  /\ xlog[i - 1].val = sc.challenge
             /\ IsWrite(xlog[i], "ota_main") =>
                  /\ i >= 3 /\ IsWrite(xlog[i - 1], "ota_token") /\ xlog[i - 1].ok
                  /\ IsRead(xlog[i - 2], "ota_challenge")

\* While an exchange is in progress every step belongs to it: the command is
\* the same and the operation is added to the operations of that exchange.
NoInterleaving ==
    sc.step \notin {"idle", "done", "raised"} =>
        /\ sc'.cmd = sc.cmd
        /\ sc'.step # "idle"
        /\ IsPrefix(xlog, xlog')
        /\ Len(xlog') <= Len(xlog) + 1

\* C7: exchanges never interleave and each uses its own challenge: the
\* signature written to ota_token is computed from the challenge read in the
\* same exchange, a challenge read is followed by at most one write to
\* ota_main, and between the challenge read and the write to ota_main of a
\* command there is no operation of another command.
C7_ExchangesDoNotInterleave == [](OwnChallenge) /\ [][NoInterleaving]_vars

\* The second Program of a chunked write completed, signed with a challenge
\* that differs from the first nonce of the device.
C7_Witness ==
    /\ mode = "write" /\ mon.count["Program"] >= 2 /\ sc.step = "done"
    /\ sc.challenge = Nonce(2, 16)
    /\ BDrop(SignedMessage(sc.token_signature), 32) = Nonce(2, 16)

\* C8: when the read of ota_challenge fails or returns nothing the exchange
\* fails there: it is the last operation of the exchange, so no signature is
\* written to ota_token and no command to ota_main; and every write to
\* ota_token or ota_main comes after a read that gave a challenge.
C8_NoChallengeNoToken ==
    \A i \in 1..Len(xlog) :
        /\ (IsRead(xlog[i], "ota_challenge") /\ (~xlog[i].ok \/ BLen(xlog[i].val) = 0)) =>
              /\ i = Len(xlog)
              /\ sc.step = "raised"
              /\ xlog[i].ok => sc.exc = Exc("RuntimeError", "Failed to read authentication challenge")
        /\ (IsWrite(xlog[i], "ota_token") \/ IsWrite(xlog[i], "ota_main")) =>
              \E j \in 1..(i - 1) :
                  IsRead(xlog[j], "ota_challenge") /\ xlog[j].ok /\ BLen(xlog[j].val) > 0

\* The device answered the challenge read with nothing.
C8_Witness ==
    /\ sc.step = "raised" /\ xlog # <<>>
    /\ IsRead(xlog[Len(xlog)], "ota_challenge")
    /\ xlog[Len(xlog)].ok /\ BLen(xlog[Len(xlog)].val) = 0

ZeroBlock == Lits(<<0, 0, 0, 0, 0, 0, 0, 0, 0, 0, 0, 0, 0, 0, 0, 0>>)

\* C9: the value written to ota_token is MAC(key, cmd_mac || payload_mac ||
\* challenge), cmd_mac being MAC(key, the bytes written to ota_main) and
\* payload_mac MAC(key, payload) exactly when the payload was written to
\* ota_buffer in this exchange, 16 zero bytes exactly when none was.
C9_TokenValue ==
    \A i \in 1..Len(xlog) :
        /\ IsWrite(xlog[i], "ota_token") =>
             LET key == controller.aes_key.v
                 wrote == {j \in 1..(i - 1) : IsWrite(xlog[j], "ota_buffer")}
                 payload_mac == IF wrote # {}
                                THEN CMAC(key, xlog[CHOOSE j \in wrote : TRUE].val)
                                ELSE ZeroBlock
                 challenge == xlog[i - 1].val
             IN  /\ wrote # {} <=> CarriesPayload(sc.cmd)
                 /\ wrote # {} => xlog[CHOOSE j \in wrote : TRUE].val = sc.cmd.data.v
                 /\ xlog[i].val =
                        CMAC(key, BCat(BCat(CMAC(key, sc.cmd_bytes), payload_mac), challenge))
        /\ IsWrite(xlog[i], "ota_main") => xlog[i].val = sc.cmd_bytes

\* An Erase, a command without payload, was signed and sent in a flash run.
C9_Witness ==
    /\ sc.step = "done" /\ sc.cmd.cls = "Erase"
    /\ \E i \in 1..Len(xlog) : IsWrite(xlog[i], "ota_token") /\ xlog[i].ok
    /\ mode = "flash"

\* C10: in every exchange that reaches the signature step the token is exactly
\* 48 bytes, whatever non-empty value the device returned as challenge.
C10_TokenIs48Bytes ==
    sc.token # <<>> => BLen(sc.token) = 48

-----------------------------------------------------------------------------
(* Properties of the flash workflow (do_cmd_flash) *)

MarkerBankA == Lits(<<165, 165, 165, 165>>)      \* a5a5a5a5: the device runs bank A
MarkerBankB == Lits(<<90, 90, 90, 90>>)          \* 5a5a5a5a: the device runs bank B

\* The number of Program commands a write of n bytes takes.
Chunks(n) == IF n <= 0 THEN 1 ELSE (n + 511) \div 512

\* C2: in the flash workflow the commands written to ota_main are Erase, then
\* the Program chunks, then Verify, then Confirm: a Program is written only
\* after a status read reported success for the Erase, the Verify only after
\* every Program chunk was written, and the Confirm only after a status read
\* reported success for the Verify and the digest read from the device
\* equalled the digest of the local file.
C2_FlashOrder ==
    mode = "flash" =>
        /\ IsPrefix(mon.mainSeq, <<"Erase", "Program", "Verify", "Confirm">>)
        /\ mon.count["Erase"] <= 1 /\ mon.count["Verify"] <= 1 /\ mon.count["Confirm"] <= 1
        /\ mon.count["Program"] > 0 => mon.eraseOk
        /\ mon.count["Verify"] > 0 =>
             LET n == Min(files[args.filepath], 221184)
             IN  mon.progBytes = n /\ mon.count["Program"] = Chunks(n)
        /\ mon.count["Confirm"] > 0 =>
             /\ mon.count["Verify"] = 1
             /\ mon.verifyOk
             /\ mon.digest = PyBytes(SHA256(FileBytes(args.filepath, files[args.filepath])))

\* A flash run wrote its Confirm after a two-chunk write.
C2_Witness ==
    mode = "flash" /\ mon.count["Confirm"] > 0 /\ mon.count["Program"] = 2

\* C3: in the flash workflow, when the value read from ota_flash_bank is
\* neither a5a5a5a5 nor 5a5a5a5a (an empty value and a failed read included)
\* the run ends with exit status 1 and no Erase, Program, Verify or Confirm is
\* written to the device.
C3_UnknownBankAborts ==
    (/\ mode = "flash"
     /\ mon.bankRaw # Unbound
     /\ (IsNone(mon.bankRaw) \/ mon.bankRaw.v \notin {MarkerBankA, MarkerBankB})) =>
        /\ exit = "1"
        /\ \A c \in Classes : mon.count[c] = 0
        /\ sc = NoCall /\ xlog = <<>>

\* The device reported a three-byte bank value.
C3_Witness ==
    /\ mode = "flash" /\ mon.bankRaw = PyBytes(Lits(<<165, 165, 165>>)) /\ exit = "1"

\* Erase(0x00037000, 0x00036000) and Erase(0x00001000, 0x00036000) as sent.
EraseBankB == Lits(<<2, 0, 112, 3, 0, 0, 96, 3, 0>>)
EraseBankA == Lits(<<2, 0, 16, 0, 0, 0, 96, 3, 0>>)

\* Every byte of b comes from the file f.
FromFile(b, f) == \A i \in 1..Len(b) : b[i].src = FileSrc(f)

\* C4: in the flash workflow the value a5a5a5a5 selects address 0x00037000,
\* length 0x00036000 and the bank-B file, the value 5a5a5a5a address
\* 0x00001000, length 0x00036000 and the bank-A file; the Erase written
\* carries exactly that address and length, and the Programs the bytes of
\* that file.
C4_BankTarget ==
    (mode = "flash" /\ IsBytes(mon.bankRaw) /\ pc \notin {"flash_ota", "exit"}) =>
        LET file == IF mon.bankRaw.v = MarkerBankA THEN args.bank_b ELSE args.bank_a
            address == IF mon.bankRaw.v = MarkerBankA THEN 225280 ELSE 4096
            erase == IF mon.bankRaw.v = MarkerBankA THEN EraseBankB ELSE EraseBankA
        IN  /\ mon.bankRaw.v \in {MarkerBankA, MarkerBankB}
            /\ args.filepath = file
            /\ pc \in {"connect_erase", "erase", "erase_await", "erase_poll",
                      "connect_write", "write"} =>
                   args.address = PyInt(address) /\ args.length = PyInt(221184)
            /\ (sc.step # "idle" /\ sc.cmd.cls = "Erase") =>
                   sc.cmd = AutoOTAEraseCommand(PyInt(address), PyInt(221184))
            /\ mon.count["Erase"] > 0 => mon.lastMain["Erase"] = erase
            /\ (sc.step # "idle" /\ sc.cmd.cls = "Program") => FromFile(sc.cmd.data.v, file)

\* With bank A in use, the Erase of bank B was written and a Program followed.
C4_Witness ==
    /\ mode = "flash" /\ mon.bankRaw = PyBytes(MarkerBankA)
    /\ mon.lastMain["Erase"] = EraseBankB
    /\ sc.step = "done" /\ sc.cmd.cls = "Program" /\ mon.count["Program"] = 2

-----------------------------------------------------------------------------
(* Properties of the writes (write_characteristic) *)

\* C11: the write of the command bytes to ota_main is made as a
\* write-with-response (response=True), for every command and whatever the
\* write-no-response setting of the session is.
C11_MainWriteWithResponse ==
    \A i \in 1..Len(xlog) : IsWrite(xlog[i], "ota_main") => xlog[i].resp = "True"

-----------------------------------------------------------------------------
(* Properties of the chunked transfers (do_cmd_read, do_cmd_write) *)

\* The command of the exchange in progress was written to ota_main.
MainWritten == \E i \in 1..Len(xlog) : IsWrite(xlog[i], "ota_main")

\* The index, from 0, of the chunk whose exchange is in progress: the number
\* of commands of that class written to ota_main before this one.
ChunkIndex(cls) == mon.count[cls] - (IF MainWritten THEN 1 ELSE 0)

\* The number of bytes a write transfers: the file, cut at --length when given.
WriteLength ==
    IF IsNone(args.length) \/ args.length.v = 0 THEN files[args.filepath]
    ELSE Min(files[args.filepath], args.length.v)

\* Chunk i of a transfer of `length` bytes from `address` starts at `at` and
\* has `size` bytes.
IsChunk(i, address, length, at, size) ==
    /\ 0 <= i /\ 512 * i < length
    /\ at = address + 512 * i
    /\ size = Min(512, length - 512 * i)

\* C12: for every address and every length > 0 the chunked read and the
\* chunked write issue ceil(length/512) commands; chunk i starts at
\* address + 512*i and has 512 bytes, the last one the rest, so that the
\* chunks are contiguous, do not overlap and sum up to length.
C12_ChunkPartition ==
    /\ (mode = "read" /\ IsInt(args.length) /\ args.length.v > 0) =>
          /\ sc.step # "idle" =>
                /\ sc.cmd.cls = "Read"
                /\ IsChunk(ChunkIndex("Read"), args.address.v, args.length.v,
                           sc.cmd.address.v, sc.cmd.length.v)
          /\ mon.count["Read"] <= Chunks(args.length.v)
          /\ exit = "0" => mon.count["Read"] = Chunks(args.length.v)
    /\ (/\ \/ mode = "write" /\ pc \in {"write_await", "exit"}
           \/ mode = "flash" /\ pc \in {"write_await", "flash_stat"}
        /\ IsFile(args.filepath)
        /\ WriteLength > 0) =>
          /\ (sc.step # "idle" /\ sc.cmd.cls = "Program") =>
                IsChunk(ChunkIndex("Program"), args.address.v, WriteLength,
                        sc.cmd.address.v, BLen(sc.cmd.data.v))
          /\ mon.count["Program"] <= Chunks(WriteLength)
          /\ (exit = "0" \/ pc = "flash_stat") =>
                /\ mon.count["Program"] = Chunks(WriteLength)
                /\ mon.progBytes = WriteLength

\* A read of 1030 bytes ended well after three Read commands.
C12_Witness ==
    /\ mode = "read" /\ exit = "0" /\ args.length = PyInt(1030) /\ mon.count["Read"] = 3

\* The bytes of file f from offset lo up to, not including, offset hi.
FileRange(f, lo, hi) == BTake(BDrop(FileBytes(f, files[f]), lo), Max(0, hi - lo))

\* C13: in the chunked write the payload of the i-th Program is the slice of
\* the source at offset 512*i, of 512 bytes or, for the last chunk, of what is
\* left of the bytes to write, and its address is the start address plus that
\* offset; the payloads sent, in order, make up the prefix of the source that
\* is to be written, no byte twice, none skipped.
C13_WritePayloads ==
    (/\ mode \in {"write", "flash"} /\ pc = "write_await"
     /\ sc.step # "idle" /\ sc.cmd.cls = "Program") =>
        LET i == ChunkIndex("Program")
        IN  /\ BLen(sc.cmd.data.v) <= 512
            /\ sc.cmd.address.v = args.address.v + 512 * i
            /\ sc.cmd.data.v = FileRange(args.filepath, 512 * i, Min(512 * i + 512, WriteLength))
            /\ mon.progBytes = (IF MainWritten THEN 512 * i + BLen(sc.cmd.data.v) ELSE 512 * i)

\* send_command failed for a chunk of a chunked read or write.
ChunkFailed ==
    mode \in {"read", "write", "flash"} /\ sc.step = "raised" /\ sc.cmd.cls \in {"Read", "Program"}

\* After the failure of a chunk the run is over: it leaves with status 1 and
\* neither starts another exchange nor touches the device.
FailedChunkEndsRun ==
    ChunkFailed => (exit' = "1" /\ pc' = "exit" /\ sc' = sc /\ xlog' = xlog /\ mon' = mon)

\* C14: in the chunked read and write, when send_command fails for a chunk
\* no command of a later chunk is issued and the run ends with a failure
\* (exit status 1); it never ends as a completed transfer.
C14_FailedChunkAborts ==
    /\ [](ChunkFailed => exit \in {"running", "1"})
    /\ [](ChunkFailed /\ exit = "running" => pc \in {"read_await", "write_await"})
    /\ [][FailedChunkEndsRun]_vars

\* The second chunk of a three-chunk write failed and the run ended there.
C14_Witness ==
    /\ mode = "write" /\ ChunkFailed /\ exit = "1"
    /\ ChunkIndex("Program") = 1 /\ Chunks(WriteLength) = 3 /\ mon.count["Program"] <= 2

-----------------------------------------------------------------------------
(* Properties of the completion wait (do_cmd_erase, do_cmd_verify) *)

Polling == pc \in {"erase_poll", "verify_poll"}
ReadBusy(check) == check.exc = NoExc /\ check.busy
ReadSuccess(check) == check.exc = NoExc /\ ~check.busy /\ check.success
ReadFailure(check) == check.exc = NoExc /\ ~check.busy /\ ~check.success
LastCheck == loc.checks[Len(loc.checks)]
WaitSucceeded ==
    /\ ~Polling
    /\ loc.failed_code = PyNone
    /\ mode = "erase" => (pc = "exit" /\ exit = "0")
    /\ (mode = "flash" /\ mon.count["Verify"] = 0) => (pc \in {"connect_write", "write"} /\ exit = "running")
    /\ (mode = "verify" \/ mon.count["Verify"] > 0) =>
          (pc \in {"verify_iobuf", "connect_commit", "commit", "exit"} /\ mon.verifyOk)
WaitFailed(code) == pc = "exit" /\ exit = "1" /\ loc.failed_code = PyInt(code)

\* C15: the completion wait of Erase and Verify stops at the first status read
\* that is not busy: every read before the last one was busy; while the wait
\* goes on every read so far was busy; a last read with success has ended the
\* wait successfully (the run goes on to its next step), a last read with
\* neither busy nor success has ended the run with exit status 1 and the code of
\* that read. So the statuses busy, busy, success end the wait successfully
\* after exactly 3 reads and busy, failure(3) end it with code 3 after exactly 2.
C15_WaitStopsAtFirstNonBusy ==
    LET n == Len(loc.checks)
    IN  /\ \A i \in 1..(n - 1) : ReadBusy(loc.checks[i])
        /\ Polling => /\ \A i \in 1..n : ReadBusy(loc.checks[i])
                      /\ loc.failed_code = PyNone
        /\ (n > 0 /\ ReadSuccess(LastCheck)) => WaitSucceeded
        /\ (n > 0 /\ ReadFailure(LastCheck)) => WaitFailed(LastCheck.code)
        /\ (n > 0 /\ ReadBusy(LastCheck)) => (Polling /\ exit = "running")
        /\ (n > 0 /\ ReadFailure(loc.checks[1])) => n = 1
        /\ (n > 1 /\ ReadBusy(loc.checks[1]) /\ ReadFailure(loc.checks[2]) /\ loc.checks[2].code = 3) =>
              (n = 2 /\ WaitFailed(3))
        /\ (n > 2 /\ ReadBusy(loc.checks[1]) /\ ReadBusy(loc.checks[2]) /\ ReadSuccess(loc.checks[3])) =>
              (n = 3 /\ WaitSucceeded)
C15_Witness ==
    /\ mode = "verify" /\ Len(loc.checks) = 2
    /\ ReadBusy(loc.checks[1]) /\ ReadFailure(loc.checks[2]) /\ loc.checks[2].code = 3
    /\ WaitFailed(3)

\* One step of the program seen from a completion wait: a step that stays in
\* the wait has read a busy status and has done nothing else (no exchange, no
\* operation on the device, no change of the history of the run), and a step
\* that leaves the wait has read a status that is not busy or has failed to
\* read one.
WaitStep ==
    /\ (Polling /\ Polling') =>
          /\ pc' = pc /\ exit' = exit
          /\ sc' = sc /\ xlog' = xlog /\ mon' = mon
          /\ device' = device /\ controller' = controller
          /\ loc'.checks = loc.checks \/ loc'.checks = Append(loc.checks, LastCheck')
          /\ \A i \in 1..Len(loc'.checks) : ReadBusy(loc'.checks[i])
    /\ (Polling /\ ~Polling') =>
          /\ loc'.checks = Append(loc.checks, LastCheck')
          /\ ~ReadBusy(LastCheck')
          /\ sc' = sc /\ xlog' = xlog /\ mon.calls' = mon.calls

\* C16: the completion wait of Erase and Verify ends if and only if the device
\* at some turn reports a status that is not busy (or the read of the status
\* fails): when the device does not report busy for ever the wait eventually
\* ends; a turn that reads busy stays in the wait and does nothing but that
\* read, and the wait is left only by a turn whose read is not busy.
C16_WaitEndsIffNotBusy ==
    /\ Polling ~> ~Polling
    /\ [][WaitStep]_vars
C16_Witness ==
    /\ ~Polling /\ mode = "erase" /\ exit = "0"
    /\ Len(loc.checks) = MaxPolls + 1
    /\ \A i \in 1..MaxPolls : ReadBusy(loc.checks[i])
    /\ ReadSuccess(LastCheck)

-----------------------------------------------------------------------------
(* Properties of the status decoding (read_ota_status) *)

StatusRead == pc = "api" /\ loc.call = "read_ota_status" /\ loc.result.exc = NoExc
StatusIs(byte0, byte1, busy, success, code) ==
    loc.status_data = Lits(<<byte0, byte1>>) =>
        (loc.result.busy = busy /\ loc.result.success = success /\ loc.result.code = code)

\* C17: for every two bytes read from ota_main, read_ota_status returns
\* busy = (byte0 # 0), code = byte1 and success = (byte1 = 0 and byte0 = 0): the
\* bytes 01 00 give busy without success, 00 00 give success, 00 07 give a
\* failure with code 7, and busy and success are never both true.
C17_StatusDecode ==
    StatusRead =>
        LET byte0 == ByteAt(loc.status_data, 0)
            byte1 == ByteAt(loc.status_data, 1)
        IN  /\ loc.result.busy = (byte0 # 0)
            /\ loc.result.code = byte1
            /\ loc.result.success = (byte1 = 0 /\ byte0 = 0)
            /\ ~(loc.result.busy /\ loc.result.success)
            /\ StatusIs(1, 0, TRUE, FALSE, 0)
            /\ StatusIs(0, 0, FALSE, TRUE, 0)
            /\ StatusIs(0, 7, FALSE, FALSE, 7)
C17_Witness ==
    /\ StatusRead /\ loc.status_data = Lits(<<1, 0>>)
    /\ loc.result.busy /\ ~loc.result.success /\ loc.result.code = 0

-----------------------------------------------------------------------------
(* Properties of the verification (do_cmd_verify) *)

\* The bytes of the local file do_cmd_verify hashes: the first args.length of
\* them, all of them when --length is absent or 0.
LocalRange ==
    LET size == files[args.filepath]
    IN  BTake(FileBytes(args.filepath, size),
              IF IsNone(args.length) \/ args.length.v = 0 THEN size ELSE Min(size, args.length.v))
DigestRead == mon.digest # PyNone
DigestMatch == mon.digest = PyBytes(SHA256(LocalRange))

VerifySent == pc = "verify_await" /\ sc.cmd.cls = "Verify" /\ mon.count["Verify"] > 0

\* C19: in verify, the number of bytes of the local file that are hashed equals
\* the length the Verify command carries, for every file size and requested
\* length.
C19_VerifyRangesAgree ==
    (mode = "verify" /\ VerifySent) => sc.cmd.length = PyInt(loc.length)

\* C20: in the flash workflow, the length the Verify command carries equals the
\* number of bytes the Write step programmed, for every size of the bank file.
C20_FlashVerifyLength ==
    (mode = "flash" /\ VerifySent) => sc.cmd.length = PyInt(mon.progBytes)

-----------------------------------------------------------------------------
(* Properties of the failures of the flash workflow (do_cmd_flash) *)

\* What a failed state of the workflow leaves behind: a bank value that is no
\* marker or could not be read, a command exchange that raised, a completion
\* wait whose last status read was a failure or raised, a digest that differs.
BankFailed ==
    /\ mon.bankRaw # Unbound
    /\ (IsNone(mon.bankRaw) \/ mon.bankRaw.v \notin {MarkerBankA, MarkerBankB})
ExchangeFailed == sc.step = "raised"
StatusFailed == Len(loc.checks) > 0 /\ ~ReadBusy(LastCheck) /\ ~ReadSuccess(LastCheck)
StageFailed ==
    mode = "flash" /\ (BankFailed \/ ExchangeFailed \/ StatusFailed \/ (DigestRead /\ ~DigestMatch))
InfoFailed == mode = "flash" /\ mon.infoFailed

\* The run ends here: nothing more is written to or read from the device.
Aborts == pc' = "exit" /\ exit' # "running" /\ sc' = sc /\ xlog' = xlog /\ mon' = mon

\* C21 as claimed: in the flash workflow a failure in any state, the read of the
\* device information in Info included, ends the workflow: the next step of the
\* run is its end, with no later state entered and no further command sent.
C21_EveryFailureFatal == [][(InfoFailed \/ StageFailed) => Aborts]_vars

\* C21 as amended: a failure of BankSelect (the OTA information), Erase, Write,
\* Verify or Commit ends the workflow: while the run still goes on after it,
\* only the handler of a failed exchange is left to run, and the next step is
\* the end of the run with no later state entered, no further exchange and no
\* further operation on the device. A failure to read the device information in
\* Info does not end the workflow.
C21_FailureFatalButInfo ==
    /\ [](StageFailed /\ exit = "running" =>
             (ExchangeFailed /\ pc \in {"erase_await", "write_await", "verify_await", "commit_await"}))
    /\ [](StageFailed /\ exit # "running" => pc = "exit")
    /\ [][StageFailed => Aborts]_vars
C21_Witness ==
    /\ InfoFailed /\ StageFailed /\ StatusFailed /\ exit = "1"
    /\ mon.count["Erase"] = 1 /\ mon.count["Program"] = 0

-----------------------------------------------------------------------------
(* Properties of the session (connect_ble, disconnect) *)

\* The flash workflow between the return of its connect_ble and the end of the
\* Confirm exchange.
FlashSteps ==
    {"flash", "flash_ota", "connect_erase", "erase", "erase_await", "erase_poll",
     "connect_write", "write", "write_await", "flash_stat", "connect_verify", "verify",
     "verify_await", "verify_poll", "verify_iobuf", "connect_commit", "commit", "commit_await"}
InFlash == mode = "flash" /\ pc \in FlashSteps
SessionOpened == Connect(NewDevice(IF args.write_no_rsp THEN "False" ELSE "None"), "ok")

\* Only the first connect_ble and the end of do_cmd_commit change the device.
SessionStep ==
    (mode = "flash" /\ device' # device) =>
        \/ pc = "connect" /\ mon.connects = 0
        \/ pc = "commit_await" /\ device' = Disconnect(device)

\* C22: in the flash workflow the session is connected once and stays connected
\* through Info, BankSelect, Erase, Write and Verify: connect_ble connects one
\* device in the whole run, every step up to the end of the Confirm exchange
\* finds that device connected with the controller made for it, and nothing
\* disconnects or replaces it before the Commit step ends.
C22_OneSession ==
    /\ [](mode = "flash" => mon.connects <= 1)
    /\ [](InFlash =>
             /\ mon.connects = 1
             /\ device = SessionOpened
             /\ Connected(device)
             /\ controller = AutoOTAController(AesKey(args.aes_key)))
    /\ [][SessionStep]_vars
C22_Witness ==
    /\ mode = "flash" /\ pc = "commit" /\ mon.connects = 1 /\ Connected(device)
    /\ mon.count["Erase"] = 1 /\ mon.count["Program"] = 2 /\ mon.count["Verify"] = 1

\* C23: whenever a run ends after connect_ble returned a connected session, at
\* the normal end of the operation or on a fatal error, the session has been
\* released: disconnect was called, the device is no longer connected.
C23_SessionReleased ==
    (mode # "api" /\ exit # "running" /\ controller.exists) => ~device.connected

-----------------------------------------------------------------------------
(* Properties of the handlers of Reboot and Commit (do_cmd_reboot, do_cmd_commit) *)

\* The exchange of a Reboot or Confirm command has raised e.
LastExchangeRaised == sc.step = "raised" /\ sc.cmd.cls \in {"Reboot", "Confirm"}
Handling == pc \in {"reboot_await", "commit_await"} /\ LastExchangeRaised

\* The transport lost the connection during the exchange: a read or a write of
\* the exchange raised an error of the operating system, which is no BleakError.
ConnectionLost == LastExchangeRaised /\ sc.exc.kind = "OSError" /\ Len(xlog) > 0

C25_ErrorsAreFailures ==
    (mode # "api" /\ pc = "exit" /\ LastExchangeRaised /\ sc.exc.kind = "RuntimeError") =>
        exit = "1"

-----------------------------------------------------------------------------
(* Properties of the repetitions (no retries) *)

\* No attribute operation occurs twice in one exchange.
NoOpTwice ==
    \A i, j \in 1..Len(xlog) :
        (i # j) => <<xlog[i].op, xlog[i].attr>> # <<xlog[j].op, xlog[j].attr>>

\* A step that writes a Read or a Program to ota_main writes the chunk that
\* follows the chunks written before it: no chunk is written twice.
ChunkOnce ==
    \A c \in {"Read", "Program"} :
        (mode # "api" /\ mon.count[c]' # mon.count[c]) =>
            /\ mon.count[c]' = mon.count[c] + 1
            /\ sc.cmd.cls = c
            /\ sc.cmd.address.v = args.address.v + 512 * mon.count[c]

\* An exchange that raised is not followed by another one.
NoSecondTry == (mode # "api" /\ sc.step = "raised") => (sc' = sc /\ xlog' = xlog /\ mon' = mon)

\* C26: there are no retries. In one run the Erase, the Verify, the Reboot and
\* the Confirm are written to ota_main at most once and every read or write
\* chunk at most once; no exchange repeats an attribute operation and an
\* exchange that failed is not started again; the only operation repeated is
\* the status read of the completion wait, and every status read but the first
\* directly follows a read that reported busy.
C26_NoRetries ==
    /\ [](mode # "api" => \A c \in {"Erase", "Verify", "Reboot", "Confirm"} : mon.count[c] <= 1)
    /\ [](NoOpTwice)
    /\ [](\A i \in 2..Len(loc.checks) : ReadBusy(loc.checks[i - 1]))
    /\ [][ChunkOnce]_vars
    /\ [][NoSecondTry]_vars
C26_Witness ==
    /\ mode = "flash" /\ exit = "0"
    /\ mon.count["Erase"] = 1 /\ mon.count["Program"] = 2
    /\ mon.count["Verify"] = 1 /\ mon.count["Confirm"] = 1
    /\ Len(xlog) = 3

-----------------------------------------------------------------------------
(* Properties of the commands (AutoOTACommand.py) *)

Validated == loc.call \in {"cmd_validate", "cmd_to_bytes"} /\ pc \in {"cmd_to_bytes", "api"}
Accepted == Validated /\ (pc = "cmd_to_bytes" \/ loc.call = "cmd_to_bytes")
Encoded == pc = "api" /\ loc.call = "cmd_to_bytes"

\* The unsigned integer whose little-endian bytes are b[at .. at + 3].
FromLE(b, at) ==
    ByteAt(b, at) + 256 * ByteAt(b, at + 1) + 65536 * ByteAt(b, at + 2)
    + 16777216 * ByteAt(b, at + 3)
IsByteString(b) == \A i \in 0..(BLen(b) - 1) : ByteAt(b, i) \in 0..255

\* C27: for every command that passes validation the encoding is the opcode
\* byte followed by little-endian u32 fields: 9 bytes opcode, address, length
\* for Read (00), Erase (02) and Verify (03); 5 bytes 01, address for Program
\* whatever its data; 04 for Reboot and 05 for Confirm; Read(0x1000, 256) gives
\* 00 00 10 00 00 00 01 00 00 and Program(0x2000) gives 01 00 20 00 00.
C27_Encoding ==
    Encoded =>
        LET cmd == loc.cmd
            b == loc.cmd_bytes.v
        IN  /\ loc.exc = NoExc /\ IsBytes(loc.cmd_bytes)
            /\ IsByteString(b)
            /\ cmd.cls \in {"Read", "Erase", "Verify"} =>
                  /\ BLen(b) = 9
                  /\ ByteAt(b, 0) = (CASE cmd.cls = "Read" -> 0 [] cmd.cls = "Erase" -> 2
                                       [] OTHER -> 3)
                  /\ FromLE(b, 1) = cmd.address.v
                  /\ FromLE(b, 5) = cmd.length.v
            /\ cmd.cls = "Program" =>
                  (BLen(b) = 5 /\ ByteAt(b, 0) = 1 /\ FromLE(b, 1) = cmd.address.v)
            /\ cmd.cls = "Reboot" => b = Lits(<<4>>)
            /\ cmd.cls = "Confirm" => b = Lits(<<5>>)
            /\ (cmd.cls = "Read" /\ cmd.address = PyInt(4096) /\ cmd.length = PyInt(256)) =>
                  b = Lits(<<0, 0, 16, 0, 0, 0, 1, 0, 0>>)
            /\ (cmd.cls = "Program" /\ cmd.address = PyInt(8192)) =>
                  b = Lits(<<1, 0, 32, 0, 0>>)

Present(v) == ~IsNone(v)
\* The commands the claim has validation accept.
MustAccept(cmd) ==
    CASE cmd.cls \in {"Read", "Erase", "Verify"} ->
            IsInt(cmd.address) /\ IsInt(cmd.length) /\ cmd.length.v > 0
      [] cmd.cls = "Program" -> IsInt(cmd.address) /\ IsBytes(cmd.data)
      [] OTHER -> TRUE

\* C28: validation accepts a Read, an Erase or a Verify exactly when an integer
\* address and a positive integer length are present, a Program exactly when
\* an integer address and a bytes payload are present, and every Reboot and
\* Confirm; an address of 0 is accepted and a length of 0 or below rejected.
\* A rejection raises ValueError for a missing parameter and TypeError for a
\* parameter of the wrong type or a length that is not positive.
C28_Validation ==
    Validated =>
        LET cmd == loc.cmd
            rejected == ~Accepted
        IN  /\ Accepted <=> MustAccept(cmd)
            /\ rejected <=> (loc.exc # NoExc /\ loc.call = "cmd_validate" /\ pc = "api")
            /\ rejected => loc.exc.kind \in {"ValueError", "TypeError"}
            /\ (rejected /\ cmd.cls # "Program") =>
                  (loc.exc.kind = "ValueError" <=>
                      (~Present(cmd.address) \/ (IsInt(cmd.address) /\ ~Present(cmd.length))))
            /\ (cmd.cls \in {"Read", "Erase", "Verify"} /\ cmd.address = PyInt(0)
                  /\ IsInt(cmd.length) /\ cmd.length.v > 0) => Accepted
            /\ (cmd.cls = "Program" /\ cmd.address = PyInt(0) /\ IsBytes(cmd.data)) => Accepted
            /\ (cmd.cls \in {"Read", "Erase", "Verify"} /\ IsInt(cmd.length) /\ cmd.length.v <= 0) =>
                  rejected
C28_Witness ==
    /\ Validated /\ ~Accepted /\ loc.cmd.cls = "Erase"
    /\ loc.cmd.address = PyInt(0) /\ loc.cmd.length = PyInt(0)
    /\ loc.exc.kind = "TypeError"

\* C29: validation checks the range of the numeric parameters: a command that
\* passed validation has an address that is an unsigned 32-bit integer (and a
\* length that fits in 32 bits), so that encoding it succeeds.
C29_ValidatedInRange ==
    (Accepted /\ loc.cmd.cls \in {"Read", "Program", "Erase", "Verify"}) =>
        /\ loc.cmd.address.v >= 0 /\ (loc.cmd.address.v \div 65536) < 65536
        /\ loc.cmd.cls # "Program" => (loc.cmd.length.v \div 65536) < 65536
        /\ Encoded => loc.exc = NoExc

-----------------------------------------------------------------------------
(* Properties of the IO buffer in an exchange (send_command) *)

\* C30: within a command exchange ota_buffer is written only for a Program
\* command, with the data of that command, and is read only for a Read
\* command: the exchanges of Read, Erase, Verify, Reboot and Confirm never
\* write it and those of Program, Erase, Verify, Reboot and Confirm never read
\* it and never get a result; the bytes read back for a Read are that
\* command's result, unchanged.
C30_BufferUse ==
    /\ \A i \in 1..Len(xlog) :
          /\ IsWrite(xlog[i], "ota_buffer") =>
                (sc.cmd.cls = "Program" /\ xlog[i].val = sc.cmd.data.v /\ i = 1)
          /\ IsRead(xlog[i], "ota_buffer") =>
                /\ sc.cmd.cls = "Read"
                /\ i = Len(xlog)
                /\ xlog[i].ok => sc.result = PyBytes(xlog[i].val)
                /\ ~xlog[i].ok => sc.result = PyNone
    /\ sc.cmd.cls # "Read" => sc.result = PyNone
    /\ sc.result # PyNone =>
          (Len(xlog) > 0 /\ IsRead(xlog[Len(xlog)], "ota_buffer") /\ sc.step = "done")
    /\ (sc.step = "done" /\ sc.cmd.cls = "Read") => sc.result # PyNone
C30_Witness ==
    /\ sc.step = "done" /\ sc.cmd.cls = "Read" /\ sc.result = PyBytes(FlashBytes(4096, 4))
    /\ sc.cmd.data # PyNone
    /\ \A i \in 1..Len(xlog) : ~IsWrite(xlog[i], "ota_buffer")

-----------------------------------------------------------------------------
(* Properties of the channel of a session that is not connected *)

\* The client invoked a read of the channel / send_command in this step.
ReadInvoked == mon'.calls > mon.calls /\ loc'.call \in ChannelReads
SendInvoked == pc = "api" /\ pc' = "api_await"
\* No attribute operation reached the client in this step.
NoAttributeOperation ==
    /\ xlog' = xlog \/ xlog' = <<>>
    /\ mon'.count = mon.count
    /\ ReadInvoked => loc'.io = <<>>
\* The last disconnect returned and no connect followed it.
Released == mode = "api" /\ loc.call = "disconnect" /\ loc.exc = NoExc /\ pc = "api"

-----------------------------------------------------------------------------
(* Properties of the signature across exchanges *)

\* What the exchange in progress signed, and the payload of a signing.
Current == Signing(controller.aes_key, sc)
Signed(x) == x.token_signature # <<>>
Payload(x) == IF IsBytes(x.cmd_iobuf) THEN x.cmd_iobuf.v ELSE <<>>
SameButChallenge(x, y) ==
    x.key = y.key /\ x.cmd_bytes = y.cmd_bytes /\ Payload(x) = Payload(y)
\* Two tokens that differ in their last 16 bytes and nowhere else.
DifferInLast16(t, u) ==
    /\ BLen(t) = BLen(u) /\ BLen(t) >= 16
    /\ BTake(t, BLen(t) - 16) = BTake(u, BLen(u) - 16)
    /\ BDrop(t, BLen(t) - 16) # BDrop(u, BLen(u) - 16)

\* C32: the signature written to ota_token is a function of the key, the
\* encoded command, the payload and the challenge: two exchanges that agree in
\* the four write the same signature, and two exchanges that differ only in
\* the challenge sign different tokens, which differ in their last 16 bytes
\* and nowhere else.
C32_SignatureFunction ==
    (Signed(Current) /\ Signed(loc.prev) /\ SameButChallenge(Current, loc.prev)) =>
        IF Current.challenge = loc.prev.challenge
        THEN Current.token_signature = loc.prev.token_signature
        ELSE /\ Current.token # loc.prev.token
             /\ DifferInLast16(Current.token, loc.prev.token)

\* The same for challenges of 16 bytes; without that limit the claim asks for
\* more than the code gives.
C32_SignatureFunction16 ==
    (Signed(Current) /\ Signed(loc.prev) /\ SameButChallenge(Current, loc.prev)
       /\ BLen(Current.challenge) = 16 /\ BLen(loc.prev.challenge) = 16) =>
        IF Current.challenge = loc.prev.challenge
        THEN Current.token_signature = loc.prev.token_signature
        ELSE /\ Current.token_signature # loc.prev.token_signature
             /\ DifferInLast16(Current.token, loc.prev.token)

-----------------------------------------------------------------------------
(* Properties of the payload of a Program *)

\* C33: every Program written to ota_main is preceded, in the same exchange,
\* by a write of exactly its data to ota_buffer, whatever the data (zero
\* length included), so that the buffer never holds older content when a
\* Program is sent.
C33_ProgramAfterItsPayload ==
    \A i \in 1..Len(xlog) :
        (IsWrite(xlog[i], "ota_main") /\ xlog[i].ok /\ sc.cmd.cls = "Program") =>
            \E j \in 1..(i - 1) :
                IsWrite(xlog[j], "ota_buffer") /\ xlog[j].ok /\ xlog[j].val = sc.cmd.data.v

\* The same for Programs that carry at least one byte.
C33_ProgramAfterPayloadNonEmpty ==
    \A i \in 1..Len(xlog) :
        (IsWrite(xlog[i], "ota_main") /\ xlog[i].ok /\ CarriesPayload(sc.cmd)) =>
            \E j \in 1..(i - 1) :
                IsWrite(xlog[j], "ota_buffer") /\ xlog[j].ok /\ xlog[j].val = sc.cmd.data.v

-----------------------------------------------------------------------------
(* Properties of the region the flash workflow writes *)

\* The base of the bank the device does not run from, by the bank marker read.
RunningBankA == mon.bankRaw = PyBytes(MarkerBankA)
OtherBankBase == IF RunningBankA THEN BankBAddress ELSE BankAAddress
RunningBankBase == IF RunningBankA THEN BankAAddress ELSE BankBAddress
\* The range [lo, lo + n) lies inside [base, base + BankLength).
InBank(lo, n, base) == base <= lo /\ lo + n <= base + BankLength
\* The range [lo, lo + n) and the bank at base have no byte in common.
OffBank(lo, n, base) == lo + n <= base \/ base + BankLength <= lo

\* C34: in the flash workflow every Program's range [address, address +
\* payload length) lies inside the region of the Erase written before it,
\* which is the bank the device does not run from with length 0x00036000,
\* for every size of the bank file; no Erase and no Program touches the bank
\* in use.
C34_ProgramsInsideErasedBank ==
    (mode = "flash" /\ sc.step # "idle") =>
        /\ sc.cmd.cls = "Erase" =>
              /\ sc.cmd = AutoOTAEraseCommand(PyInt(OtherBankBase), PyInt(BankLength))
              /\ OffBank(sc.cmd.address.v, sc.cmd.length.v, RunningBankBase)
        /\ sc.cmd.cls = "Program" =>
              /\ mon.eraseOk
              /\ mon.lastMain["Erase"] = (IF RunningBankA THEN EraseBankB ELSE EraseBankA)
              /\ InBank(sc.cmd.address.v, BLen(sc.cmd.data.v), OtherBankBase)
              /\ OffBank(sc.cmd.address.v, BLen(sc.cmd.data.v), RunningBankBase)
              /\ mon.progBytes <= BankLength
\* The last Program of a bank file larger than the bank was written: it ends at
\* the end of the erased bank.
C34_Witness ==
    /\ mode = "flash" /\ args.filepath = "B" /\ files["B"] > BankLength
    /\ sc.cmd.cls = "Program" /\ sc.step = "done"
    /\ sc.cmd.address.v + BLen(sc.cmd.data.v) = OtherBankBase + BankLength
    /\ mon.progBytes = BankLength

-----------------------------------------------------------------------------
(* Properties of the chunk size *)

\* C35: no chunk is larger than the chunk size: every Read of the chunked read
\* asks for at most 512 bytes and every Program of the chunked write carries
\* at most 512 bytes, for every --address, every --length (zero and negative
\* integers included) and every file size; checked on the commands that were
\* written to ota_main.
C35_ChunkAtMost512 ==
    (mode \in {"read", "write", "flash"} /\ MainWritten) =>
        /\ sc.cmd.cls = "Read" => sc.cmd.length.v <= CHUNK
        /\ sc.cmd.cls = "Program" => BLen(sc.cmd.data.v) <= CHUNK

\* The same for the runs whose --length is absent or not negative.
C35_ChunkAtMost512NotNegative ==
    (mode \in {"read", "write", "flash"} /\ MainWritten
       /\ (IsNone(args.length) \/ args.length.v >= 0)) =>
        /\ sc.cmd.cls = "Read" => sc.cmd.length.v <= CHUNK
        /\ sc.cmd.cls = "Program" => BLen(sc.cmd.data.v) <= CHUNK

-----------------------------------------------------------------------------
(* Properties of the output of the chunked read *)

\* C36: when the chunked read of (address, length) ends well, the output
\* holds exactly length bytes: the results of the chunks in ascending order
\* of address, each as long as its chunk asked for, whatever sizes the device
\* returned.
C36_ReadOutputLength ==
    (mode = "read" /\ exit = "0") =>
        /\ BLen(loc.flash_dump) = args.length.v
        /\ loc.flash_dump = FlashBytes(args.address.v, args.length.v)

-----------------------------------------------------------------------------
(* Properties of a short status *)

\* A status read that gave fewer than 2 bytes.
ShortRead(check) == BLen(check.raw) < 2
\* The run ended with an error that is not a success.
EndedInFailure == pc = "exit" /\ exit \in {"1", "exception"}

\* C37: a status read that returns no byte or fewer than 2 bytes is an error:
\* read_ota_status raises and yields no status with success or busy set, and
\* the completion wait of Erase or Verify ends there with a failure: it does
\* not report success and does not go on polling.
C37_ShortStatusFails ==
    \A i \in 1..Len(loc.checks) :
        ShortRead(loc.checks[i]) =>
            /\ loc.checks[i].exc # NoExc
            /\ ~loc.checks[i].busy /\ ~loc.checks[i].success
            /\ i = Len(loc.checks)
            /\ EndedInFailure
            /\ LastMainCls(mon) \in {"Erase", "Verify"}
            /\ LastMainCls(mon) = "Erase" => ~mon.eraseOk
            /\ LastMainCls(mon) = "Verify" => (~mon.verifyOk /\ mon.digest = PyNone)
\* The wait on an Erase read busy and then a single byte: the run ended with
\* the error of read_ota_status.
C37_Witness ==
    /\ Len(loc.checks) = 2 /\ ReadBusy(loc.checks[1])
    /\ loc.checks[2].raw = Lits(<<0>>) /\ loc.checks[2].exc.kind = "IndexError"
    /\ LastMainCls(mon) = "Erase" /\ pc = "exit" /\ exit = "exception"

=============================================================================
